---- MODULE Spec2Model ----
(***************************************************************************)
(* A model of siori's application state (src/src/app.rs, struct App) and   *)
(* of the earlier single-file revision kept in src/src/main.rs; the parts  *)
(* of the renderer (src/src/ui.rs) that read the lists are modelled too.   *)
(*                                                                         *)
(* The repository provider (git2 / the git CLI) is the environment: the   *)
(* model keeps, per repository, the content of a few paths in HEAD, index  *)
(* and working directory, the number of commits reachable from HEAD and    *)
(* whether a remote is configured. Every handler of app.rs is a function   *)
(* on the state that performs the whole handler, refreshes included; the   *)
(* actions are the steps of the event loop, of the worker threads and of   *)
(* other processes.                                                        *)
(***************************************************************************)
EXTENDS Integers, Sequences, FiniteSets, TLC

\* ------------------------------------------------------------------------
\* Bounds of the model
\* ------------------------------------------------------------------------
\* number of changes other processes make to the repositories
MaxExt == 2
\* longest history a repository holds in the model
MaxCommits == 2
\* longest text typed into a text-entry buffer
MaxText == 1

\* Option<T>: None is the empty sequence, Some(x) the one-element sequence
None == <<>>
Some(x) == <<x>>
Unwrap(o) == o[1]

\* the repositories on disk and the paths a status scan can report, in the
\* (path-sorted) order in which git2 reports them
Repos == <<"r1", "r2">>
Paths == <<"a.txt", "b.txt", "c.txt">>
RepoSet == {Repos[i] : i \in 1..Len(Repos)}
PathIdx == 1..Len(Paths)

\* One path of a repository: the content it has in the HEAD tree (h), in the
\* index (i) and in the working directory (w); 0 is "absent", 1 and 2 are
\* two versions of the file.
Blob(h, i, w) == [h |-> h, i |-> i, w |-> w]
Contents == {0, 1, 2}

\* git's status bits of a path: idx is the index-vs-HEAD change, wt the
\* workdir-vs-index change ("-" none, "new", "mod", "del")
IdxBits(b) ==
    IF b.h = b.i THEN "-"
    ELSE IF b.h = 0 THEN "new" ELSE IF b.i = 0 THEN "del" ELSE "mod"
WtBits(b) ==
    IF b.i = b.w THEN "-"
    ELSE IF b.i = 0 THEN "new" ELSE IF b.w = 0 THEN "del" ELSE "mod"

\* ------------------------------------------------------------------------
\* Variables
\* ------------------------------------------------------------------------
VARIABLES
    \* the environment, a record:
    \*   session     the keys and mouse events this run's user produces, how
    \*               much text is typed and what other processes do (see
    \*               Sessions)
    \*   tree        [repo -> [path index -> Blob]]
    \*   history     [repo -> number of commits reachable from HEAD]
    \*   has_remote  [repo -> whether remote "origin" is configured]
    \*   detected    what detect_repos(cwd) returns (sorted)
    \*   ext         number of changes made by other processes so far
    world,
    \* struct App (app.rs 145-175), a record with the struct's fields; the
    \* ListState fields hold the selected index (Option<usize>), and
    \* processing_rx holds the buffer of the channel it receives from
    app,
    \* the threads spawned by start_processing that have not ended
    workers,
    \* "run", or how the event loop ended: "err" (a handler returned Err,
    \* which the loop propagates) or "panic"
    fate,
    \* the handlers the last step ran, outermost first (bookkeeping, read
    \* by the properties only)
    last

vars == <<world, app, workers, fate, last>>

\* the state a handler works on: handlers are functions from such records
\* to such records, so that a handler's calls compose
Cur == [app |-> app, world |-> world, workers |-> workers, fate |-> fate,
        last |-> <<>>]

\* the step's outcome becomes the next state
Becomes(s) ==
    /\ app' = s.app
    /\ world' = s.world
    /\ workers' = s.workers
    /\ fate' = s.fate
    /\ last' = s.last

Ran(s, name) == [s EXCEPT !.last = Append(s.last, name)]

\* ------------------------------------------------------------------------
\* Sequence helpers
\* ------------------------------------------------------------------------
RECURSIVE SeqConcat(_)
SeqConcat(ss) == IF ss = <<>> THEN <<>> ELSE Head(ss) \o SeqConcat(Tail(ss))

Min(a, b) == IF a < b THEN a ELSE b

\* Vec::iter().position(pred): 0-based index of the first match, or None
RECURSIVE PositionFrom(_, _, _)
PositionFrom(s, x, k) ==
    IF k > Len(s) THEN None
    ELSE IF s[k] = x THEN Some(k - 1) ELSE PositionFrom(s, x, k + 1)

Position(s, x) == PositionFrom(s, x, 1)

\* ------------------------------------------------------------------------
\* Status Snapshot Builder
\* ------------------------------------------------------------------------
\* repo.statuses(): one entry per path with a change, in path order
StatusScan(tr) ==
    SeqConcat([k \in PathIdx |->
        IF IdxBits(tr[k]) = "-" /\ WtBits(tr[k]) = "-" THEN <<>>
        ELSE <<[path |-> Paths[k], idx |-> IdxBits(tr[k]), wt |-> WtBits(tr[k])]>>])

\* the fingerprint hashes path and status bits of every entry, in order; the
\* model keeps the hashed sequence itself (no collisions)
compute_status_fingerprint(statuses) ==
    [k \in 1..Len(statuses) |-> <<statuses[k].path, statuses[k].idx, statuses[k].wt>>]

\* get_diff_stats: (insertions, deletions) of the path's delta; the staged
\* diff needs a HEAD tree
get_diff_stats(e, staged, hasHead) ==
    IF staged
    THEN IF ~hasHead THEN None
         ELSE IF e.idx = "new" THEN Some(<<1, 0>>)
         ELSE IF e.idx = "del" THEN Some(<<0, 1>>) ELSE Some(<<1, 1>>)
    ELSE IF e.wt = "new" THEN Some(<<0, 0>>)
         ELSE IF e.wt = "del" THEN Some(<<0, 1>>) ELSE Some(<<1, 1>>)

StagedStatus(e) ==
    IF e.idx = "new" THEN "Added"
    ELSE IF e.idx = "del" THEN "Deleted" ELSE "Modified"

UnstagedStatus(e) ==
    IF e.wt = "new" THEN "Untracked"
    ELSE IF e.wt = "del" THEN "Deleted" ELSE "Modified"

StagedEntry(e, compute_diff_stats, hasHead) ==
    [path |-> e.path, status |-> StagedStatus(e), staged |-> TRUE,
     diff_stats |-> IF compute_diff_stats THEN get_diff_stats(e, TRUE, hasHead)
                    ELSE None]

UnstagedEntry(e, compute_diff_stats, hasHead) ==
    [path |-> e.path, status |-> UnstagedStatus(e), staged |-> FALSE,
     diff_stats |-> IF compute_diff_stats THEN get_diff_stats(e, FALSE, hasHead)
                    ELSE None]

\* a variant that takes both indices before pushing anything
ScanStep_IndexBeforePush(acc, e, compute_diff_stats, hasHead) ==
    LET a1 == IF e.idx # "-"
              THEN [files |-> Append(acc.files, StagedEntry(e, compute_diff_stats, hasHead)),
                    staged_indices |-> Append(acc.staged_indices, Len(acc.files)),
                    unstaged_indices |-> acc.unstaged_indices]
              ELSE acc
    IN  IF e.wt # "-"
        THEN [files |-> Append(a1.files, UnstagedEntry(e, compute_diff_stats, hasHead)),
              staged_indices |-> a1.staged_indices,
              unstaged_indices |-> Append(a1.unstaged_indices, Len(acc.files))]
        ELSE a1

\* a variant that shows a path with both kinds of change once, as staged
ScanStep_Merges(acc, e, compute_diff_stats, hasHead) ==
    IF e.idx # "-"
    THEN [files |-> Append(acc.files, StagedEntry(e, compute_diff_stats, hasHead)),
          staged_indices |-> Append(acc.staged_indices, Len(acc.files)),
          unstaged_indices |-> acc.unstaged_indices]
    ELSE IF e.wt # "-"
    THEN [files |-> Append(acc.files, UnstagedEntry(e, compute_diff_stats, hasHead)),
          staged_indices |-> acc.staged_indices,
          unstaged_indices |-> Append(acc.unstaged_indices, Len(acc.files))]
    ELSE acc

\* app.rs 322-373: the single pass over the scan. A path with both kinds of
\* change pushes its staged entry and then its unstaged entry; the index of
\* each pushed entry (files.len() before the push) goes to its section's list.
ScanStep(acc, e, compute_diff_stats, hasHead) ==
    LET a1 == IF e.idx # "-"
              THEN [files |-> Append(acc.files, StagedEntry(e, compute_diff_stats, hasHead)),
                    staged_indices |-> Append(acc.staged_indices, Len(acc.files)),
                    unstaged_indices |-> acc.unstaged_indices]
              ELSE acc
    IN  IF e.wt # "-"
        THEN [files |-> Append(a1.files, UnstagedEntry(e, compute_diff_stats, hasHead)),
              staged_indices |-> a1.staged_indices,
              unstaged_indices |-> Append(a1.unstaged_indices, Len(a1.files))]
        ELSE a1

RECURSIVE ScanPass(_, _, _, _)
ScanPass(statuses, acc, compute_diff_stats, hasHead) ==
    IF statuses = <<>> THEN acc
    ELSE ScanPass(Tail(statuses),
                  ScanStep(acc, Head(statuses), compute_diff_stats, hasHead),
                  compute_diff_stats, hasHead)

EmptyPass == [files |-> <<>>, staged_indices |-> <<>>, unstaged_indices |-> <<>>]

\* a variant that lists the unstaged entries first
BuildVisualList_UnstagedFirst(pass) == pass.unstaged_indices \o pass.staged_indices

\* app.rs 375-377: visual_list = staged_indices ++ unstaged_indices
BuildVisualList(pass) == pass.staged_indices \o pass.unstaged_indices

\* main.rs 151-196: two passes over the scan, staged entries first
main_CollectFiles(statuses, hasHead) ==
    SeqConcat([k \in 1..Len(statuses) |->
        IF statuses[k].idx # "-"
        THEN <<StagedEntry(statuses[k], TRUE, hasHead)>> ELSE <<>>])
    \o
    SeqConcat([k \in 1..Len(statuses) |->
        IF statuses[k].wt # "-"
        THEN <<UnstagedEntry(statuses[k], TRUE, hasHead)>> ELSE <<>>])

\* 0-based indices into fs of the entries whose staged flag is flag, in order
IndicesWhere(fs, flag) ==
    SeqConcat([k \in 1..Len(fs) |-> IF fs[k].staged = flag THEN <<k - 1>> ELSE <<>>])

\* main.rs 198-209: the file_index of every staged entry, then of every
\* unstaged entry
main_BuildVisualList(fs) == IndicesWhere(fs, TRUE) \o IndicesWhere(fs, FALSE)

\* a variant that keeps an out-of-range selection
AdjustSelection_NoClamp(selected, len) ==
    IF selected = None /\ len > 0 THEN Some(0) ELSE selected

\* the "Adjust selection" tail of refresh_status_internal
AdjustSelection(selected, len) ==
    IF selected = None /\ len > 0 THEN Some(0)
    ELSE IF selected # None /\ Unwrap(selected) >= len
         THEN (IF len >= 1 THEN Some(len - 1) ELSE None)   \* checked_sub(1)
         ELSE selected

\* the repository App.repo has open
HasHead(s) == s.world.history[s.app.repo_path] > 0
Statuses(s) == StatusScan(s.world.tree[s.app.repo_path])

\* a variant that never stores the fingerprint
refresh_status_internal_NoStore(s, compute_diff_stats) ==
    LET statuses == Statuses(s)
        new_fingerprint == compute_status_fingerprint(statuses)
        pass == ScanPass(statuses, EmptyPass, compute_diff_stats, HasHead(s))
        vl == BuildVisualList(pass)
    IN  IF ~compute_diff_stats /\ Some(new_fingerprint) = s.app.status_fingerprint
        THEN Ran(s, "skip_rebuild")
        ELSE Ran([s EXCEPT
                    !.app.files = pass.files,
                    !.app.visual_list = vl,
                    !.app.files_state = AdjustSelection(s.app.files_state, Len(vl))],
                 "rebuild_files")

\* app.rs 299-390
refresh_status_internal(s, compute_diff_stats) ==
    LET statuses == Statuses(s)
        new_fingerprint == compute_status_fingerprint(statuses)
        pass == ScanPass(statuses, EmptyPass, compute_diff_stats, HasHead(s))
        vl == BuildVisualList(pass)
    IN  IF ~compute_diff_stats /\ Some(new_fingerprint) = s.app.status_fingerprint
        THEN Ran(s, "skip_rebuild")              \* no changes, skip rebuild
        ELSE Ran([s EXCEPT
                    !.app.files = pass.files,
                    !.app.visual_list = vl,
                    !.app.files_state = AdjustSelection(s.app.files_state, Len(vl)),
                    !.app.status_fingerprint =
                        IF compute_diff_stats THEN s.app.status_fingerprint
                        ELSE Some(new_fingerprint)],
                 "rebuild_files")

\* app.rs 295-297
refresh_status(s) == refresh_status_internal(s, TRUE)

\* ------------------------------------------------------------------------
\* Log Assembler
\* ------------------------------------------------------------------------
\* the hard cap of the history walk
LogCap == 100

\* the revwalk from HEAD, newest first: a history of n commits has the
\* commits n (HEAD), n-1, ..., 1
Walk(n) ==
    [k \in 1..Min(n, LogCap) |-> [id |-> n - k + 1, is_head |-> k = 1]]

\* the tag names of the model, "x" and "y" (as code points), in the order
\* the references are listed
TagNames == <<<<120>>, <<121>>>>
TagNameSet == {TagNames[k] : k \in 1..Len(TagNames)}

\* every commit of the model has the one-character summary "x"
Summary(id) == <<120>>

\* the directory the process was started in holds this repository; the git
\* commands run without current_dir act on it
CwdRepo == Repos[1]

\* app.rs 508-525: `git ls-remote --tags origin`, run without current_dir;
\* when it fails its stdout is empty
remote_tags(w) ==
    IF w.has_remote[CwdRepo] THEN w.remote_tags[CwdRepo] ELSE {}

\* a variant that remembers nothing of the old list
previous_tag_status_Forgets(commits, name) == None

\* app.rs 457-462: the pushed flag each tag name had in the old list
previous_tag_status(commits, name) ==
    LET hits == {<<k, t>> \in (1..Len(commits)) \X (1..Len(TagNames)) :
                    t <= Len(commits[k].tags) /\ commits[k].tags[t].name = name}
    IN  IF hits = {} THEN None
        ELSE LET h == CHOOSE h \in hits : TRUE
             IN  Some(commits[h[1]].tags[h[2]].pushed)

\* app.rs 535-551: the tags of commit id
TagsOf(s, id, check_remote_tags) ==
    LET names == SelectSeq(TagNames,
                           LAMBDA nm : s.world.tags[s.app.repo_path][nm] = id)
    IN  [t \in 1..Len(names) |->
            [name |-> names[t],
             pushed |-> IF check_remote_tags
                        THEN names[t] \in remote_tags(s.world)
                        ELSE LET prev == previous_tag_status(s.app.commits, names[t])
                             IN  IF prev = None THEN FALSE ELSE Unwrap(prev)]]

\* app.rs 528-562: the entries pushed for the walk
CommitEntries(s, check_remote_tags) ==
    LET walk == Walk(s.world.history[s.app.repo_path])
    IN  [k \in 1..Len(walk) |->
            [id |-> walk[k].id, is_head |-> walk[k].is_head,
             message |-> Summary(walk[k].id),
             tags |-> TagsOf(s, walk[k].id, check_remote_tags)]]

\* app.rs 455-568: with an unborn HEAD push_head fails and the function
\* returns right after commits.clear(); otherwise the remote's tags are
\* listed when check_remote_tags is set ("ls_remote"), the walk is collected
\* and the first entry selected when nothing was selected
refresh_log_internal(s, check_remote_tags) ==
    LET n == s.world.history[s.app.repo_path]
        entries == CommitEntries(s, check_remote_tags)
        s1 == IF check_remote_tags THEN Ran(s, "ls_remote") ELSE s
    IN  IF n = 0
        THEN Ran([s EXCEPT !.app.commits = <<>>], "rebuild_log")
        ELSE Ran([s1 EXCEPT
                    !.app.commits = entries,
                    !.app.commits_state =
                        IF s.app.commits_state = None /\ entries # <<>> THEN Some(0)
                        ELSE s.app.commits_state],
                 "rebuild_log")

\* app.rs 446-453
refresh_log(s) == refresh_log_internal(s, TRUE)
refresh_log_local(s) == refresh_log_internal(s, FALSE)

\* app.rs 234-239 (refresh_branch_info touches only the branch labels)
refresh(s) == refresh_log(refresh_status(s))

\* app.rs 242-247
refresh_status_only(s) == refresh_log_local(refresh_status_internal(s, FALSE))

\* ------------------------------------------------------------------------
\* Text buffers: a String is the sequence of its chars (code points); the
\* positions the code keeps are byte offsets into the UTF-8 encoding
\* ------------------------------------------------------------------------
Ord(ch) ==
    CASE ch = " " -> 32
      [] ch = "P" -> 80
      [] ch = "R" -> 82
      [] ch = "T" -> 84
      [] ch = "c" -> 99
      [] ch = "d" -> 100
      [] ch = "e" -> 101
      [] ch = "j" -> 106
      [] ch = "k" -> 107
      [] ch = "p" -> 112
      [] ch = "q" -> 113
      [] ch = "r" -> 114
      [] ch = "t" -> 116
      [] ch = "x" -> 120

len_utf8(c) ==
    IF c < 128 THEN 1 ELSE IF c < 2048 THEN 2 ELSE IF c < 65536 THEN 3 ELSE 4

RECURSIVE ByteLen(_)
ByteLen(str) == IF str = <<>> THEN 0 ELSE len_utf8(Head(str)) + ByteLen(Tail(str))

\* byte offset at which char k (1-based) starts; k = Len + 1 is the end
OffsetOf(str, k) == ByteLen(SubSeq(str, 1, k - 1))

\* the char that starts at byte offset pos, or None when pos is not a char
\* boundary of str (Len + 1 stands for the end of the string)
CharAt(str, pos) ==
    LET ks == {k \in 1..(Len(str) + 1) : OffsetOf(str, k) = pos}
    IN  IF ks = {} THEN None ELSE Some(CHOOSE k \in ks : TRUE)

\* str::trim().is_empty()
IsBlank(str) == \A k \in 1..Len(str) : str[k] = 32

\* ------------------------------------------------------------------------
\* Key and mouse events
\* ------------------------------------------------------------------------
Key(kind) == [kind |-> kind, c |-> 0, ctrl |-> FALSE]
Char(ch) == [kind |-> "Char", c |-> Ord(ch), ctrl |-> FALSE]
Ctrl(ch) == [kind |-> "Char", c |-> Ord(ch), ctrl |-> TRUE]
CharCode(c) == [kind |-> "Char", c |-> c, ctrl |-> FALSE]
\* U+3042, three bytes in UTF-8
HiraganaA == 12354
IsChar(code, ch) == code.kind = "Char" /\ code.c = Ord(ch)

\* a variant that leaves the full-width digits alone
normalize_fullwidth_LettersOnly(c) ==
    IF c >= 65345 /\ c <= 65370 THEN c - 65345 + 97
    ELSE IF c >= 65313 /\ c <= 65338 THEN c - 65313 + 65
    ELSE IF c = 12288 THEN 32
    ELSE c

\* app.rs 1276-1284
normalize_fullwidth(c) ==
    IF c >= 65345 /\ c <= 65370 THEN c - 65345 + 97        \* U+FF41..U+FF5A
    ELSE IF c >= 65313 /\ c <= 65338 THEN c - 65313 + 65   \* U+FF21..U+FF3A
    ELSE IF c >= 65296 /\ c <= 65305 THEN c - 65296 + 48   \* U+FF10..U+FF19
    ELSE IF c = 12288 THEN 32                              \* U+3000
    ELSE c

\* ------------------------------------------------------------------------
\* Messages and results
\* ------------------------------------------------------------------------
SetMessage(s, text, is_error) ==
    [s EXCEPT !.app.message = Some([text |-> text, is_error |-> is_error])]

\* a handler returns Err(..): the event loop's `?` ends the loop
ReturnErr(s) == [s EXCEPT !.fate = "err"]
Panic(s) == [s EXCEPT !.fate = "panic"]

\* ------------------------------------------------------------------------
\* Background Operation Supervisor
\* ------------------------------------------------------------------------
\* a variant that reports no operation
is_active_Never(processing) == FALSE

\* app.rs 46-48
is_active(processing) == processing # "None"

\* a variant whose thread sends a result before the operation has run
start_processing_SendsAtSpawn(s, state, operation) ==
    Ran([s EXCEPT
          !.workers = [k \in 1..Len(s.workers) |->
                          [s.workers[k] EXCEPT !.connected = FALSE]]
                      \o <<[op |-> operation, repo |-> s.app.repo_path,
                            connected |-> TRUE, result |-> None]>>,
          !.app.processing = state,
          !.app.processing_rx = Some(<<[ok |-> TRUE, text |-> <<"sent">>]>>)],
        "start_processing")

\* app.rs 281-293: a new channel and a new thread; a receiver that was
\* still held is overwritten, which disconnects the thread sending to it
start_processing(s, state, operation) ==
    Ran([s EXCEPT
          !.workers = [k \in 1..Len(s.workers) |->
                          [s.workers[k] EXCEPT !.connected = FALSE]]
                      \o <<[op |-> operation, repo |-> s.app.repo_path,
                            connected |-> TRUE, result |-> None]>>,
          !.app.processing = state,
          !.app.processing_rx = Some(<<>>)],
        "start_processing")

\* a variant that does not wait for the result
check_processing_Early(s) ==
    IF s.app.processing_rx # None
    THEN Ran(refresh([s EXCEPT
                        !.app.processing = "None",
                        !.app.processing_rx = None,
                        !.workers = [k \in 1..Len(s.workers) |->
                                        [s.workers[k] EXCEPT !.connected = FALSE]]]),
             "check_processing")
    ELSE s

\* a variant that waits for a successful result
check_processing_DropsErr(s) ==
    IF s.app.processing_rx # None /\ Unwrap(s.app.processing_rx) # <<>>
       /\ Head(Unwrap(s.app.processing_rx)).ok
    THEN LET result == Head(Unwrap(s.app.processing_rx))
             s1 == [s EXCEPT
                      !.app.message = Some([text |-> result.text,
                                            is_error |-> ~result.ok]),
                      !.app.processing = "None",
                      !.app.processing_rx = None,
                      !.workers = [k \in 1..Len(s.workers) |->
                                      [s.workers[k] EXCEPT !.connected = FALSE]]]
         IN  Ran(refresh(s1), "check_processing")
    ELSE s

\* a variant that refreshes only after a successful operation
check_processing_NoRefreshOnErr(s) ==
    IF s.app.processing_rx # None /\ Unwrap(s.app.processing_rx) # <<>>
    THEN LET result == Head(Unwrap(s.app.processing_rx))
             s1 == [s EXCEPT
                      !.app.message = Some([text |-> result.text,
                                            is_error |-> ~result.ok]),
                      !.app.processing = "None",
                      !.app.processing_rx = None,
                      !.workers = [k \in 1..Len(s.workers) |->
                                      [s.workers[k] EXCEPT !.connected = FALSE]]]
         IN  Ran(IF result.ok THEN refresh(s1) ELSE s1, "check_processing")
    ELSE s

\* app.rs 264-278
check_processing(s) ==
    IF s.app.processing_rx # None /\ Unwrap(s.app.processing_rx) # <<>>
    THEN LET result == Head(Unwrap(s.app.processing_rx))
             s1 == [s EXCEPT
                      !.app.message = Some([text |-> result.text,
                                            is_error |-> ~result.ok]),
                      !.app.processing = "None",
                      !.app.processing_rx = None,
                      !.workers = [k \in 1..Len(s.workers) |->
                                      [s.workers[k] EXCEPT !.connected = FALSE]]]
         IN  Ran(refresh(s1), "check_processing")
    ELSE s

\* run_git's two messages for each operation (app.rs 712-728, 773-775,
\* 819-826, 999-1006)
SuccessMsg(op) ==
    CASE op = "commit" -> "Committed successfully"
      [] op = "amend" -> "Amended successfully"
      [] op = "push" -> "Pushed successfully"
      [] op = "pull" -> "Pulled successfully"
      [] op = "push_tags" -> "Tags pushed successfully"

ErrorPrefix(op) ==
    CASE op = "commit" -> "Commit failed"
      [] op = "amend" -> "Amend failed"
      [] op = "push" -> "Push failed"
      [] op = "pull" -> "Pull failed"
      [] op = "push_tags" -> "Push tags failed"

\* a variant that drops the rejected text
commit_ClearsRejected(s) ==
    IF IsBlank(s.app.commit_message)
    THEN Ran(SetMessage([s EXCEPT !.app.commit_message = <<>>,
                                  !.app.cursor_pos = 0],
                        <<"Empty commit message">>, TRUE), "commit")
    ELSE LET is_amending == s.app.is_amending
             s1 == [s EXCEPT !.app.commit_message = <<>>,
                             !.app.cursor_pos = 0,
                             !.app.is_amending = FALSE,
                             !.app.input_mode = "Normal"]
         IN  start_processing(Ran(s1, "commit"), "Committing",
                              IF is_amending THEN "amend" ELSE "commit")

\* app.rs 697-731
commit(s) ==
    IF IsBlank(s.app.commit_message)
    THEN Ran(SetMessage(s, <<"Empty commit message">>, TRUE), "commit")
    ELSE LET is_amending == s.app.is_amending
             s1 == [s EXCEPT !.app.commit_message = <<>>,
                             !.app.cursor_pos = 0,
                             !.app.is_amending = FALSE,
                             !.app.input_mode = "Normal"]
         IN  start_processing(Ran(s1, "commit"), "Committing",
                              IF is_amending THEN "amend" ELSE "commit")

\* app.rs 754-777: `git remote get-url origin` runs in repo_path; the check
\* fails when git cannot be started (check.is_err()) or exits non-zero
push(s, env) ==
    IF ~env.spawn \/ ~s.world.has_remote[s.app.repo_path]
    THEN Ran([SetMessage(s, <<"No remote configured. Enter repository URL:">>, TRUE)
                EXCEPT !.app.input_mode = "RemoteUrl",
                       !.app.remote_url = <<>>], "push")
    ELSE start_processing(Ran(s, "push"), "Pushing", "push")

\* app.rs 817-828
pull(s) == start_processing(Ran(s, "pull"), "Pulling", "pull")

\* app.rs 997-1008
push_tags(s) == start_processing(Ran(s, "push_tags"), "PushingTags", "push_tags")

\* app.rs 779-815; push_ok is the outcome of the synchronous `git push -u`
add_remote_and_push(s, push_ok) ==
    IF IsBlank(s.app.remote_url)
    THEN Ran(SetMessage(s, <<"URL is empty">>, TRUE), "add_remote_and_push")
    ELSE IF s.world.has_remote[CwdRepo]
    THEN \* `git remote add` fails: the remote already exists
         Ran([SetMessage(s, <<"Failed: remote origin already exists">>, TRUE)
                EXCEPT !.app.remote_url = <<>>,
                       !.app.input_mode = "Normal"], "add_remote_and_push")
    ELSE LET s1 == [s EXCEPT !.world.has_remote[CwdRepo] = TRUE]
             s2 == IF push_ok THEN SetMessage(s1, <<"Remote added & pushed!">>, FALSE)
                   ELSE SetMessage(s1, <<"Push failed">>, TRUE)
             s3 == [s2 EXCEPT !.app.remote_url = <<>>,
                              !.app.input_mode = "Normal"]
         IN  Ran(refresh(s3), "add_remote_and_push")

\* a variant that amends whichever commit is selected
start_amend_AnyCommit(s) ==
    LET a == s.app IN
    IF a.commits_state = None \/ Unwrap(a.commits_state) >= Len(a.commits)
    THEN Ran(s, "start_amend")
    ELSE LET sel == a.commits[Unwrap(a.commits_state) + 1]
         IN  Ran([s EXCEPT !.app.commit_message = sel.message,
                           !.app.cursor_pos = ByteLen(sel.message),
                           !.app.is_amending = TRUE,
                           !.app.input_mode = "Insert",
                           !.app.tab = "Files"], "start_amend")

\* app.rs 733-752
start_amend(s) ==
    LET a == s.app IN
    IF a.commits_state = None \/ Unwrap(a.commits_state) >= Len(a.commits)
    THEN Ran(s, "start_amend")
    ELSE LET sel == a.commits[Unwrap(a.commits_state) + 1]
         IN  IF ~sel.is_head
             THEN Ran(SetMessage(s, <<"Can only amend HEAD commit">>, TRUE),
                      "start_amend")
             ELSE Ran([s EXCEPT !.app.commit_message = sel.message,
                                !.app.cursor_pos = ByteLen(sel.message),
                                !.app.is_amending = TRUE,
                                !.app.input_mode = "Insert",
                                !.app.tab = "Files"], "start_amend")

\* ------------------------------------------------------------------------
\* Tags. The git commands of these handlers run synchronously and without
\* current_dir; env.spawn is whether git can be started, env.ok whether the
\* remote accepts what is sent to it.
\* ------------------------------------------------------------------------
\* str::trim()
RECURSIVE TrimStart(_)
TrimStart(str) ==
    IF str # <<>> /\ Head(str) = 32 THEN TrimStart(Tail(str)) ELSE str

RECURSIVE TrimEnd(_)
TrimEnd(str) ==
    IF str # <<>> /\ str[Len(str)] = 32
    THEN TrimEnd(SubSeq(str, 1, Len(str) - 1)) ELSE str

Trim(str) == TrimEnd(TrimStart(str))

\* a tag name as it is shown in a message
TagStr(name) ==
    IF name = TagNames[1] THEN "x" ELSE IF name = TagNames[2] THEN "y" ELSE "?"

\* `git tag -f <name> <commit>`: the commit is one of repository repo; the
\* command fails when the working directory's repository does not have it
git_tag_force(w, name, repo, id) ==
    IF repo = CwdRepo /\ name \in TagNameSet
    THEN [w EXCEPT !.tags[CwdRepo][name] = id]
    ELSE w

\* `git tag -d <name>`
git_tag_delete(w, name) ==
    IF name \in TagNameSet THEN [w EXCEPT !.tags[CwdRepo][name] = 0] ELSE w

\* `git push origin <name>` succeeds
git_push_tag_ok(w, name, env) ==
    env.ok /\ w.has_remote[CwdRepo] /\ name \in TagNameSet /\ w.tags[CwdRepo][name] # 0

\* the exit status of the three commands, given that git was started:
\* `git tag -f` (app.rs 917-919), `git tag -d` (app.rs 958-960) and
\* `git push origin :refs/tags/<name>` (app.rs 964-966)
git_tag_force_ok(w, name, repo, id) == repo = CwdRepo /\ name \in TagNameSet
git_tag_delete_ok(w, name) == name \in TagNameSet /\ w.tags[CwdRepo][name] # 0
git_push_delete_ok(w, name, env) ==
    env.ok /\ w.has_remote[CwdRepo] /\ name \in w.remote_tags[CwdRepo]

\* app.rs 876-892
open_tag_input(s) ==
    LET a == s.app IN
    IF a.commits_state = None \/ Unwrap(a.commits_state) >= Len(a.commits)
    THEN Ran(s, "open_tag_input")
    ELSE LET sel == a.commits[Unwrap(a.commits_state) + 1]
             s1 == IF sel.tags # <<>>
                   THEN [s EXCEPT !.app.tag_input = sel.tags[1].name,
                                  !.app.editing_tag = Some(sel.tags[1].name)]
                   ELSE [s EXCEPT !.app.tag_input = <<>>,
                                  !.app.editing_tag = None]
         IN  Ran([s1 EXCEPT !.app.input_mode = "TagInput"], "open_tag_input")

\* app.rs 956-969: the results of both commands are dropped
delete_tag_by_name(s, tag_name, delete_remote, env) ==
    LET s1 == IF env.spawn
              THEN [s EXCEPT !.world = git_tag_delete(s.world, tag_name)]
              ELSE s
        s2 == IF delete_remote /\ env.spawn /\ env.ok /\ s.world.has_remote[CwdRepo]
              THEN [s1 EXCEPT !.world.remote_tags[CwdRepo] = @ \ {tag_name}]
              ELSE s1
    IN  Ran(s2, "delete_tag_by_name")

\* app.rs 894-954
create_or_update_tag(s, env) ==
    LET a == s.app
        tag_name == Trim(a.tag_input)
    IN
    IF tag_name = <<>>
    THEN Ran(SetMessage([s EXCEPT !.app.input_mode = "Normal"],
                        <<"Tag name is empty">>, TRUE), "create_or_update_tag")
    ELSE IF a.commits_state = None \/ Unwrap(a.commits_state) >= Len(a.commits)
    THEN Ran(s, "create_or_update_tag")
    ELSE
    LET sel == a.commits[Unwrap(a.commits_state) + 1]
        was_pushed == sel.tags # <<>> /\ sel.tags[1].pushed
        old_tag == a.editing_tag
        s1 == IF old_tag # None /\ Unwrap(old_tag) # tag_name
              THEN delete_tag_by_name(s, Unwrap(old_tag), was_pushed, env)
              ELSE s
        s2 == [s1 EXCEPT !.world = git_tag_force(s1.world, tag_name,
                                                 a.repo_path, sel.id)]
        s3 == [s2 EXCEPT !.world.remote_tags[CwdRepo] = @ \cup {tag_name}]
        done(t, text) ==
            refresh_log([SetMessage(t, text, FALSE)
                           EXCEPT !.app.tag_input = <<>>,
                                  !.app.editing_tag = None,
                                  !.app.input_mode = "Normal"])
    IN  Ran(IF ~env.spawn
            THEN SetMessage([s1 EXCEPT !.app.input_mode = "Normal"],
                            <<"Failed to create tag">>, TRUE)
            ELSE IF was_pushed
            THEN IF git_push_tag_ok(s2.world, tag_name, env)
                 THEN done(s3, <<"Tag updated: ", TagStr(tag_name), " (pushed)">>)
                 ELSE refresh_log(SetMessage([s2 EXCEPT !.app.input_mode = "Normal"],
                                             <<"Tag created, push failed">>, TRUE))
            ELSE done(s2, <<"Created tag: ", TagStr(tag_name)>>),
            "create_or_update_tag")

\* app.rs 971-995
delete_selected_tag(s, env) ==
    LET a == s.app IN
    IF a.commits_state = None \/ Unwrap(a.commits_state) >= Len(a.commits)
    THEN Ran(s, "delete_selected_tag")
    ELSE LET sel == a.commits[Unwrap(a.commits_state) + 1]
         IN  IF sel.tags = <<>>
             THEN Ran(SetMessage(s, <<"No tag on this commit">>, TRUE),
                      "delete_selected_tag")
             ELSE LET tag == sel.tags[1]
                      s1 == delete_tag_by_name(s, tag.name, tag.pushed, env)
                      msg == IF tag.pushed
                             THEN <<"Deleted tag: ", TagStr(tag.name), " (local + remote)">>
                             ELSE <<"Deleted tag: ", TagStr(tag.name)>>
                  IN  Ran(refresh_log(SetMessage(s1, msg, FALSE)),
                          "delete_selected_tag")

\* ------------------------------------------------------------------------
\* Stage / unstage
\* ------------------------------------------------------------------------
PathIndex(path) == CHOOSE k \in PathIdx : Paths[k] = path

StagedCount(fs) == Cardinality({k \in 1..Len(fs) : fs[k].staged})

\* the cursor jumps to the other section instead
NewIdx_Jump(was_in_staged, pos_in_section, new_staged_count, new_changes_count) ==
    IF was_in_staged THEN new_staged_count
    ELSE IF new_staged_count > 0 THEN new_staged_count - 1 ELSE 0

\* a variant that goes to the top of the list when the cursor's section
\* has become empty
NewIdx_Top(was_in_staged, pos_in_section, new_staged_count, new_changes_count) ==
    IF was_in_staged
    THEN IF new_staged_count > 0 THEN Min(pos_in_section, new_staged_count - 1)
         ELSE 0
    ELSE IF new_changes_count > 0
         THEN new_staged_count + Min(pos_in_section, new_changes_count - 1)
         ELSE 0

\* app.rs 671-689: the index the cursor gets after the rebuild
NewIdx(was_in_staged, pos_in_section, new_staged_count, new_changes_count) ==
    IF was_in_staged
    THEN IF new_staged_count > 0 THEN Min(pos_in_section, new_staged_count - 1)
         ELSE IF new_changes_count > 0 THEN new_staged_count
         ELSE 0
    ELSE IF new_changes_count > 0
         THEN new_staged_count + Min(pos_in_section, new_changes_count - 1)
         ELSE IF new_staged_count > 0 THEN new_staged_count - 1
         ELSE 0

\* app.rs 603-667, for a path that is a file: the index update and the
\* message. index.add_path fails when the file is not in the working
\* directory, and the `?` returns the error before any refresh.
StageMutation(s, file) ==
    LET k == PathIndex(file.path)
        blob == s.world.tree[s.app.repo_path][k]
        SetIndex(v) == [s EXCEPT !.world.tree[s.app.repo_path][k].i = v]
    IN  IF file.staged
        THEN IF file.status = "Added"
             THEN SetMessage(SetIndex(0), <<"Unstaged (new): ", file.path>>, FALSE)
             ELSE IF HasHead(s)
             THEN SetMessage(SetIndex(blob.h), <<"Unstaged: ", file.path>>, FALSE)
             ELSE SetMessage(s, <<"Cannot unstage: no HEAD">>, TRUE)
        ELSE IF file.status = "Deleted"
             THEN SetMessage(SetIndex(0), <<"Staged: ", file.path>>, FALSE)
             ELSE IF blob.w = 0 THEN ReturnErr(s)
             ELSE SetMessage(SetIndex(blob.w), <<"Staged: ", file.path>>, FALSE)

\* app.rs 570-695
stage_selected(s) ==
    LET a == s.app
        r == Ran(s, "stage_selected")
    IN
    IF a.files_state = None THEN SetMessage(r, <<"No file selected">>, TRUE)
    ELSE LET visual_idx == Unwrap(a.files_state) IN
    IF visual_idx >= Len(a.visual_list) THEN SetMessage(r, <<"Invalid selection">>, TRUE)
    ELSE LET file_index == a.visual_list[visual_idx + 1] IN
    IF file_index >= Len(a.files) THEN SetMessage(r, <<"File not found">>, TRUE)
    ELSE LET file == a.files[file_index + 1]
             old_staged_count == StagedCount(a.files)
             was_in_staged == visual_idx < old_staged_count
             pos_in_section == IF was_in_staged THEN visual_idx
                               ELSE visual_idx - old_staged_count
             s1 == StageMutation(r, file)
             s2 == refresh_status(s1)
             new_staged_count == StagedCount(s2.app.files)
             new_changes_count == Len(s2.app.visual_list) - new_staged_count
             new_idx == NewIdx(was_in_staged, pos_in_section,
                               new_staged_count, new_changes_count)
         IN  IF s1.fate # "run" THEN s1
             ELSE IF new_changes_count < 0 THEN Panic(s2)
             ELSE IF s2.app.visual_list # <<>>
                  THEN [s2 EXCEPT !.app.files_state = Some(new_idx)]
                  ELSE s2

\* ------------------------------------------------------------------------
\* List navigation and mouse
\* ------------------------------------------------------------------------
\* app.rs 1168-1173
current_list_len(s) ==
    IF s.app.tab = "Files" THEN Len(s.app.visual_list) ELSE Len(s.app.commits)

\* app.rs 1175-1180
current_state(s) ==
    IF s.app.tab = "Files" THEN s.app.files_state ELSE s.app.commits_state

SetCurrentState(s, sel) ==
    IF s.app.tab = "Files" THEN [s EXCEPT !.app.files_state = sel]
    ELSE [s EXCEPT !.app.commits_state = sel]

UnwrapOr(o, d) == IF o = None THEN d ELSE Unwrap(o)

\* a variant that stops at the last entry
select_next_NoWrap(s) ==
    LET len == current_list_len(s)
        i == UnwrapOr(current_state(s), 0)
    IN  IF len > 0
        THEN SetCurrentState(Ran(s, "select_next"), Some(Min(i + 1, len - 1)))
        ELSE Ran(s, "select_next")

\* app.rs 1182-1188
select_next(s) ==
    LET len == current_list_len(s)
        i == UnwrapOr(current_state(s), 0)
    IN  IF len > 0 THEN SetCurrentState(Ran(s, "select_next"), Some((i + 1) % len))
        ELSE Ran(s, "select_next")

\* app.rs 1190-1197
select_prev(s) ==
    LET len == current_list_len(s)
        i == UnwrapOr(current_state(s), 0)
    IN  IF len > 0
        THEN SetCurrentState(Ran(s, "select_prev"),
                             Some(IF i = 0 THEN len - 1 ELSE i - 1))
        ELSE Ran(s, "select_prev")

\* app.rs 1199-1203
select_index(s, index) ==
    IF index < current_list_len(s)
    THEN SetCurrentState(Ran(s, "select_index"), Some(index))
    ELSE s

\* app.rs 1217-1222
toggle_tab(s) ==
    Ran([s EXCEPT !.app.tab = IF s.app.tab = "Files" THEN "Log" ELSE "Files"],
        "toggle_tab")

\* ------------------------------------------------------------------------
\* Repository switcher
\* ------------------------------------------------------------------------
\* app.rs 833-841
switch_repo(s, path) ==
    Ran(refresh(SetMessage([s EXCEPT !.app.repo_path = path,
                                     !.app.input_mode = "Normal"],
                           <<"Switched to: ", path>>, FALSE)),
        "switch_repo")

\* app.rs 843-854
open_repo_select(s) ==
    LET repos == s.world.detected
        current_idx == UnwrapOr(Position(repos, s.app.repo_path), 0)
    IN  Ran([s EXCEPT !.app.available_repos = repos,
                      !.app.repo_select_state = Some(current_idx),
                      !.app.input_mode = "RepoSelect"], "open_repo_select")

\* app.rs 856-862
repo_select_next(s) ==
    LET len == Len(s.app.available_repos)
        i == UnwrapOr(s.app.repo_select_state, 0)
    IN  IF len > 0
        THEN Ran([s EXCEPT !.app.repo_select_state = Some((i + 1) % len)],
                 "repo_select_next")
        ELSE Ran(s, "repo_select_next")

\* app.rs 864-871
repo_select_prev(s) ==
    LET len == Len(s.app.available_repos)
        i == UnwrapOr(s.app.repo_select_state, 0)
    IN  IF len > 0
        THEN Ran([s EXCEPT !.app.repo_select_state =
                               Some(IF i = 0 THEN len - 1 ELSE i - 1)],
                 "repo_select_prev")
        ELSE Ran(s, "repo_select_prev")

\* app.rs 1224-1272
handle_click(s, y) ==
    IF y = 0 THEN open_repo_select(s)
    ELSE IF y >= 1 /\ y <= 3 THEN toggle_tab(s)
    ELSE IF s.app.tab = "Files"
    THEN IF y >= 8
         THEN LET clicked_row == y - 8
                  staged_count ==
                      Cardinality({k \in 1..Len(s.app.visual_list) :
                          /\ s.app.visual_list[k] < Len(s.app.files)
                          /\ s.app.files[s.app.visual_list[k] + 1].staged})
                  visual_index ==
                      IF clicked_row = 0 THEN None
                      ELSE IF clicked_row <= staged_count THEN Some(clicked_row - 1)
                      ELSE IF clicked_row = staged_count + 1 THEN None
                      ELSE Some(staged_count + (clicked_row - staged_count - 2))
              IN  IF visual_index # None
                     /\ Unwrap(visual_index) < Len(s.app.visual_list)
                  THEN select_index(s, Unwrap(visual_index))
                  ELSE s
         ELSE s
    ELSE IF y >= 6 THEN select_index(s, (y - 6) \div 2)
         ELSE s

\* main.rs 749-757: the title takes screen row 0, the tabs rows 1-3, and the
\* content starts below them
main_ContentTop == 1 + 3

\* main.rs 774-779, 837-897: the file list is drawn below the three rows of
\* the commit input, one item per row: the STAGED header, the staged files,
\* the CHANGES header, the unstaged files. The row of the file at visual
\* index i (the list is not scrolled while it fits the window).
main_FileRow(a, i) ==
    LET list_top == main_ContentTop + 3
        staged_count == StagedCount(a.files)
    IN  list_top + (IF i < staged_count THEN i + 1 ELSE i + 2)

\* main.rs 923-992: the commit list is drawn below the two rows of the
\* branch info, two rows per commit. The rows of commit k.
main_CommitRows(k) ==
    LET list_top == main_ContentTop + 2
    IN  {list_top + 2 * k, list_top + 2 * k + 1}

\* app.rs 1205-1215
handle_mouse(s, event) ==
    LET r == Ran(s, "handle_mouse")
    IN  IF event.kind = "ScrollDown" THEN select_next(r)
        ELSE IF event.kind = "ScrollUp" THEN select_prev(r)
        ELSE IF event.kind = "Down" THEN handle_click(r, event.row)
        ELSE r

\* ------------------------------------------------------------------------
\* Commit message editing (Insert mode)
\* ------------------------------------------------------------------------
\* String::insert(idx, c): panics unless idx is a char boundary
StrInsert(str, pos, c) ==
    LET k == CharAt(str, pos)
    IN  IF k = None THEN None
        ELSE Some(SubSeq(str, 1, Unwrap(k) - 1) \o <<c>> \o SubSeq(str, Unwrap(k), Len(str)))

\* String::remove(idx): panics unless a char starts at idx
StrRemove(str, pos) ==
    LET k == CharAt(str, pos)
    IN  IF k = None \/ Unwrap(k) > Len(str) THEN None
        ELSE Some(SubSeq(str, 1, Unwrap(k) - 1) \o SubSeq(str, Unwrap(k) + 1, Len(str)))

\* a variant that steps one byte back
cursor_prev_char_ByteBack(a) ==
    IF a.cursor_pos = 0 THEN Some(0) ELSE Some(a.cursor_pos - 1)

\* app.rs 1141-1150 (None: the slice panics)
cursor_prev_char(a) ==
    IF a.cursor_pos = 0 THEN Some(0)
    ELSE LET k == CharAt(a.commit_message, a.cursor_pos)
         IN  IF k = None THEN None
             ELSE IF Unwrap(k) = 1 THEN Some(0)
             ELSE Some(OffsetOf(a.commit_message, Unwrap(k) - 1))

\* app.rs 1153-1162 (None: the slice panics)
cursor_next_char(a) ==
    IF a.cursor_pos >= ByteLen(a.commit_message) THEN Some(ByteLen(a.commit_message))
    ELSE LET k == CharAt(a.commit_message, a.cursor_pos)
         IN  IF k = None THEN None
             ELSE Some(OffsetOf(a.commit_message, Unwrap(k) + 1))

\* app.rs 1039-1063
InsertKey(s, code) ==
    LET a == s.app IN
    IF code.kind = "Esc" THEN [s EXCEPT !.app.input_mode = "Normal"]
    ELSE IF code.kind = "Enter" THEN commit(s)
    ELSE IF code.kind = "Backspace"
    THEN IF a.cursor_pos > 0
         THEN LET prev == cursor_prev_char(a)
                  str == IF prev = None THEN None
                         ELSE StrRemove(a.commit_message, Unwrap(prev))
              IN  IF prev = None \/ str = None THEN Panic(s)
                  ELSE [s EXCEPT !.app.commit_message = Unwrap(str),
                                 !.app.cursor_pos = Unwrap(prev)]
         ELSE s
    ELSE IF code.kind = "Delete"
    THEN IF a.cursor_pos < ByteLen(a.commit_message)
         THEN LET str == StrRemove(a.commit_message, a.cursor_pos)
              IN  IF str = None THEN Panic(s)
                  ELSE [s EXCEPT !.app.commit_message = Unwrap(str)]
         ELSE s
    ELSE IF code.kind = "Left"
    THEN LET prev == cursor_prev_char(a)
         IN  IF prev = None THEN Panic(s) ELSE [s EXCEPT !.app.cursor_pos = Unwrap(prev)]
    ELSE IF code.kind = "Right"
    THEN LET next == cursor_next_char(a)
         IN  IF next = None THEN Panic(s) ELSE [s EXCEPT !.app.cursor_pos = Unwrap(next)]
    ELSE IF code.kind = "Home" THEN [s EXCEPT !.app.cursor_pos = 0]
    ELSE IF code.kind = "End"
    THEN [s EXCEPT !.app.cursor_pos = ByteLen(a.commit_message)]
    ELSE IF code.kind = "Char"
    THEN LET str == StrInsert(a.commit_message, a.cursor_pos, code.c)
         IN  IF str = None THEN Panic(s)
             ELSE [s EXCEPT !.app.commit_message = Unwrap(str),
                            !.app.cursor_pos = a.cursor_pos + len_utf8(code.c)]
    ELSE s

\* String::pop()
Pop(str) == IF str = <<>> THEN str ELSE SubSeq(str, 1, Len(str) - 1)

\* a variant in which q quits while the URL is typed
RemoteUrlKey_QQuits(s, code, env) ==
    IF code.kind = "Esc"
    THEN SetMessage([s EXCEPT !.app.input_mode = "Normal", !.app.remote_url = <<>>],
                    <<"Cancelled">>, FALSE)
    ELSE IF code.kind = "Enter" THEN add_remote_and_push(s, env.ok)
    ELSE IF code.kind = "Backspace" THEN [s EXCEPT !.app.remote_url = Pop(@)]
    ELSE IF IsChar(code, "q") THEN [s EXCEPT !.app.running = FALSE]
    ELSE IF code.kind = "Char" THEN [s EXCEPT !.app.remote_url = Append(@, code.c)]
    ELSE s

\* app.rs 1064-1076
RemoteUrlKey(s, code, env) ==
    IF code.kind = "Esc"
    THEN SetMessage([s EXCEPT !.app.input_mode = "Normal", !.app.remote_url = <<>>],
                    <<"Cancelled">>, FALSE)
    ELSE IF code.kind = "Enter" THEN add_remote_and_push(s, env.ok)
    ELSE IF code.kind = "Backspace" THEN [s EXCEPT !.app.remote_url = Pop(@)]
    ELSE IF code.kind = "Char" THEN [s EXCEPT !.app.remote_url = Append(@, code.c)]
    ELSE s

\* app.rs 1077-1093
RepoSelectKey(s, code) ==
    IF code.kind = "Esc" THEN [s EXCEPT !.app.input_mode = "Normal"]
    ELSE IF code.kind = "Enter"
    THEN IF s.app.repo_select_state # None
            /\ Unwrap(s.app.repo_select_state) < Len(s.app.available_repos)
         THEN LET path == s.app.available_repos[Unwrap(s.app.repo_select_state) + 1]
              IN  IF path # s.app.repo_path THEN switch_repo(s, path)
                  ELSE [s EXCEPT !.app.input_mode = "Normal"]
         ELSE s
    ELSE IF IsChar(code, "j") \/ code.kind = "Down" THEN repo_select_next(s)
    ELSE IF IsChar(code, "k") \/ code.kind = "Up" THEN repo_select_prev(s)
    ELSE s

\* a variant whose Esc only clears the tag buffer
TagInputKey_EscStays(s, code, env) ==
    IF code.kind = "Esc"
    THEN [s EXCEPT !.app.tag_input = <<>>, !.app.editing_tag = None]
    ELSE IF code.kind = "Enter" THEN create_or_update_tag(s, env)
    ELSE IF code.kind = "Backspace" THEN [s EXCEPT !.app.tag_input = Pop(@)]
    ELSE IF code.kind = "Char" THEN [s EXCEPT !.app.tag_input = Append(@, code.c)]
    ELSE s

\* app.rs 1094-1106
TagInputKey(s, code, env) ==
    IF code.kind = "Esc"
    THEN [s EXCEPT !.app.input_mode = "Normal", !.app.tag_input = <<>>,
                   !.app.editing_tag = None]
    ELSE IF code.kind = "Enter" THEN create_or_update_tag(s, env)
    ELSE IF code.kind = "Backspace" THEN [s EXCEPT !.app.tag_input = Pop(@)]
    ELSE IF code.kind = "Char" THEN [s EXCEPT !.app.tag_input = Append(@, code.c)]
    ELSE s

\* app.rs 1107-1131; the arms are tried in this order
NormalKey(s, code, env) ==
    IF IsChar(code, "q") THEN [s EXCEPT !.app.running = FALSE]
    ELSE IF code.kind = "Tab" THEN toggle_tab(s)
    ELSE IF IsChar(code, "j") \/ code.kind = "Down" THEN select_next(s)
    ELSE IF IsChar(code, "k") \/ code.kind = "Up" THEN select_prev(s)
    ELSE IF IsChar(code, " ") /\ s.app.tab = "Files" THEN stage_selected(s)
    ELSE IF IsChar(code, "c") /\ s.app.tab = "Files"
    THEN [s EXCEPT !.app.input_mode = "Insert"]
    ELSE IF IsChar(code, "P") THEN push(s, env)
    ELSE IF IsChar(code, "p") /\ s.app.tab = "Log" THEN pull(s)
    ELSE IF IsChar(code, "t") /\ s.app.tab = "Log" THEN open_tag_input(s)
    ELSE IF IsChar(code, "T") /\ s.app.tab = "Log" THEN push_tags(s)
    ELSE IF IsChar(code, "d") /\ s.app.tab = "Log" THEN delete_selected_tag(s, env)
    ELSE IF IsChar(code, "e") /\ s.app.tab = "Log" THEN start_amend(s)
    ELSE IF IsChar(code, "r") THEN open_repo_select(s)
    ELSE IF IsChar(code, "R")
    THEN SetMessage(Ran(refresh(s), "refresh"), <<"Refreshed">>, FALSE)
    ELSE IF IsChar(code, "c") /\ code.ctrl THEN [s EXCEPT !.app.running = FALSE]
    ELSE s

\* app.rs 1031-1134; env holds the outcomes of the synchronous git commands
\* the handler may run
handle_key(s, key, env) ==
    LET code == IF key.kind = "Char"
                THEN [key EXCEPT !.c = normalize_fullwidth(key.c)] ELSE key
        s0 == Ran([s EXCEPT !.app.message = None], "handle_key")
    IN  CASE s.app.input_mode = "Insert" -> InsertKey(s0, code)
          [] s.app.input_mode = "RemoteUrl" -> RemoteUrlKey(s0, code, env)
          [] s.app.input_mode = "RepoSelect" -> RepoSelectKey(s0, code)
          [] s.app.input_mode = "TagInput" -> TagInputKey(s0, code, env)
          [] s.app.input_mode = "Normal" -> NormalKey(s0, code, env)

\* ------------------------------------------------------------------------
\* Worker threads and other processes
\* ------------------------------------------------------------------------
AnyStaged(tr) == \E k \in PathIdx : tr[k].i # tr[k].h

\* ------------------------------------------------------------------------
\* run_git (app.rs 105-143). Output text is a sequence of pieces of text; the
\* two phrases of a run that did nothing are two pieces each, so that a
\* phrase can lie across the seam of stdout and stderr.
\* ------------------------------------------------------------------------
NothingToCommit == <<"nothing to c", "ommit">>
NoChangesAdded == <<"no changes a", "dded">>
Pieces == {"nothing to c", "ommit", "no changes a", "dded", "x", " "}

\* str::contains
Contains(text, phrase) ==
    \E k \in 0..(Len(text) - Len(phrase)) :
        SubSeq(text, k + 1, k + Len(phrase)) = phrase

\* str::trim on a sequence of pieces: the piece " " is the whitespace
RECURSIVE TrimPiecesStart(_)
TrimPiecesStart(text) ==
    IF text # <<>> /\ Head(text) = " " THEN TrimPiecesStart(Tail(text)) ELSE text

RECURSIVE TrimPiecesEnd(_)
TrimPiecesEnd(text) ==
    IF text # <<>> /\ text[Len(text)] = " "
    THEN TrimPiecesEnd(SubSeq(text, 1, Len(text) - 1)) ELSE text

TrimPieces(text) == TrimPiecesEnd(TrimPiecesStart(text))

\* what Command::output() gives: Err(e) when git could not be started,
\* otherwise the exit status and the captured output
NotSpawned == [spawned |-> FALSE, success |-> FALSE, stdout |-> <<>>, stderr |-> <<>>]
Exited(success, stdout, stderr) ==
    [spawned |-> TRUE, success |-> success, stdout |-> stdout, stderr |-> stderr]

\* a variant that looks for the phrases in stderr only
run_git_StderrOnly(output, success_msg, error_prefix) ==
    IF output.spawned
    THEN IF output.success
         THEN LET output_text == output.stdout \o output.stderr
              IN  IF Contains(output.stderr, NothingToCommit)
                     \/ Contains(output.stderr, NoChangesAdded)
                  THEN [ok |-> FALSE,
                        text |-> <<error_prefix, ": ">> \o TrimPieces(output_text)]
                  ELSE [ok |-> TRUE, text |-> <<success_msg>>]
         ELSE [ok |-> FALSE,
               text |-> <<error_prefix, ": ">>
                        \o (IF TrimPieces(output.stderr) = <<>>
                            THEN TrimPieces(output.stdout)
                            ELSE TrimPieces(output.stderr))]
    ELSE [ok |-> FALSE, text |-> <<error_prefix, ": ", "os error">>]

\* app.rs 105-143: the GitResult for what Command::output() gave
run_git(output, success_msg, error_prefix) ==
    IF output.spawned
    THEN IF output.success
         THEN LET output_text == output.stdout \o output.stderr
              IN  IF Contains(output_text, NothingToCommit)
                     \/ Contains(output_text, NoChangesAdded)
                  THEN [ok |-> FALSE,
                        text |-> <<error_prefix, ": ">> \o TrimPieces(output_text)]
                  ELSE [ok |-> TRUE, text |-> <<success_msg>>]
         ELSE [ok |-> FALSE,
               text |-> <<error_prefix, ": ">>
                        \o (IF TrimPieces(output.stderr) = <<>>
                            THEN TrimPieces(output.stdout)
                            ELSE TrimPieces(output.stderr))]
    ELSE [ok |-> FALSE, text |-> <<error_prefix, ": ", "os error">>]

\* the git command of worker w in its repository: what it does to the
\* repository and what Command::output() gives; env.spawn is whether git can
\* be started, env.ok whether the command itself goes through
GitCommand(s, w, env) ==
    LET tr == s.world.tree[w.repo]
        n == s.world.history[w.repo]
        committed == [s EXCEPT
            !.world.tree[w.repo] = [k \in PathIdx |-> [tr[k] EXCEPT !.h = tr[k].i]]]
        failed == <<s, Exited(FALSE, <<>>, <<"x">>)>>
        done(t) == <<t, Exited(TRUE, <<"x">>, <<>>)>>
    IN  IF ~env.spawn THEN <<s, NotSpawned>>
        ELSE CASE w.op = "commit" ->
                  IF ~AnyStaged(tr)
                  THEN <<s, Exited(FALSE,
                                   IF \E k \in PathIdx : tr[k].w # tr[k].i
                                   THEN NoChangesAdded ELSE NothingToCommit,
                                   <<>>)>>
                  ELSE IF ~env.ok THEN failed
                  ELSE done([committed EXCEPT
                                !.world.history[w.repo] = Min(n + 1, MaxCommits)])
              [] w.op = "amend" ->
                  IF n = 0 \/ ~env.ok THEN failed ELSE done(committed)
              [] w.op = "pull" ->
                  IF ~s.world.has_remote[w.repo] \/ ~env.ok \/ n = 0 THEN failed
                  ELSE done([s EXCEPT !.world.history[w.repo] = Min(n + 1, MaxCommits)])
              [] w.op = "push_tags" ->
                  IF ~s.world.has_remote[w.repo] \/ ~env.ok THEN failed
                  ELSE done([s EXCEPT !.world.remote_tags[w.repo] =
                                @ \cup {nm \in TagNameSet : s.world.tags[w.repo][nm] # 0}])
              [] OTHER ->
                  IF ~s.world.has_remote[w.repo] \/ ~env.ok THEN failed
                  ELSE done(s)

\* the closure a worker thread runs (app.rs 714-729, 773-775, 819-826,
\* 999-1006): run_git on the operation's command
RunGit(s, w, env) ==
    LET g == GitCommand(s, w, env)
    IN  <<g[1], run_git(g[2], SuccessMsg(w.op), ErrorPrefix(w.op))>>

RemoveAt(seq, k) == SubSeq(seq, 1, k - 1) \o SubSeq(seq, k + 1, Len(seq))

\* app.rs 286-289, first statement of the thread: operation()
WorkerRun(k, env) ==
    /\ k \in 1..Len(workers)
    /\ workers[k].result = None
    /\ LET out == RunGit(Cur, workers[k], env)
       IN  Becomes(Ran([out[1] EXCEPT !.workers[k].result = Some(out[2])],
                       "worker_run"))

\* app.rs 288: tx.send(result), ignored when the receiver is gone; the
\* thread ends
WorkerSend(k) ==
    /\ k \in 1..Len(workers)
    /\ workers[k].result # None
    /\ LET w == workers[k]
           s1 == [Cur EXCEPT !.workers = RemoveAt(workers, k)]
       IN  Becomes(Ran(IF w.connected /\ app.processing_rx # None
                       THEN [s1 EXCEPT !.app.processing_rx =
                                Some(Append(Unwrap(app.processing_rx), Unwrap(w.result)))]
                       ELSE s1,
                       "worker_send"))

\* another process edits, creates or deletes a file of the open repository
ExtPaths == {2}
ExternalEdit(p, v) ==
    /\ fate = "run" /\ app.running
    /\ "edit" \in world.session.others
    /\ world.ext < MaxExt
    /\ world.tree[app.repo_path][p].w # v
    /\ Becomes(Ran([Cur EXCEPT !.world.tree[app.repo_path][p].w = v,
                               !.world.ext = @ + 1], "external"))

\* another process adds a commit to, or drops the last commit from, the
\* open repository's branch (the trees are the same)
ExternalHistory(d) ==
    /\ fate = "run" /\ app.running
    /\ "history" \in world.session.others
    /\ world.ext < MaxExt
    /\ world.history[app.repo_path] >= 1
    /\ world.history[app.repo_path] + d >= 1
    /\ world.history[app.repo_path] + d <= MaxCommits
    /\ Becomes(Ran([Cur EXCEPT !.world.history[app.repo_path] = @ + d,
                               !.world.ext = @ + 1], "external"))

\* another process working in the nested repository makes its first commit
\* (`git commit --allow-empty`) and tags it
ExternalTag ==
    /\ fate = "run" /\ app.running
    /\ "tag" \in world.session.others
    /\ world.ext < MaxExt
    /\ world.history[Repos[2]] = 0
    /\ Becomes(Ran([Cur EXCEPT !.world.history[Repos[2]] = 1,
                               !.world.tags[Repos[2]][TagNames[2]] = 1,
                               !.world.ext = @ + 1], "external"))

\* ------------------------------------------------------------------------
\* The event loop
\* ------------------------------------------------------------------------
\* the keys and mouse events the user produces
Keys ==
    {Char(ch) : ch \in {"q", "j", "k", " ", "c", "P", "p", "t", "T", "d", "e",
                        "r", "R", "x"}}
    \cup {CharCode(HiraganaA)} \cup {Ctrl("c")}
    \cup {Key(kd) : kd \in {"Tab", "Esc", "Enter", "Backspace", "Delete",
                            "Left", "Right", "Home", "End"}}

\* the characters typed into the text buffers
TextChars == {Ord("x"), Ord(" "), HiraganaA}

\* longest commit message typed in the session that edits it
MaxEdit == 3

MaxRow == 13
Scroll == {[kind |-> kd, row |-> 0] : kd \in {"ScrollDown", "ScrollUp"}}
Click(rows) == {[kind |-> "Down", row |-> y] : y \in rows}
MouseEvents == Scroll \cup Click(0..MaxRow)

\* A session is what one user does in one run of the program: the directory
\* it is started in (the repositories detect_repos finds there), the keys
\* and mouse events this user produces, and what other processes do to the
\* repository meanwhile.
CharKeys(chars) == {Char(ch) : ch \in chars}
OtherKeys(kinds) == {Key(kd) : kd \in kinds}
Sessions ==
    {[detected |-> <<>>,
      keys |-> CharKeys({"j", "k", " ", "R"}),
      mouse |-> Click(8..MaxRow),
      others |-> {"edit"}, text |-> MaxText],
     [detected |-> <<>>,
      keys |-> CharKeys({"j", " ", "c", "x"}) \cup OtherKeys({"Enter", "Esc", "Backspace"}),
      mouse |-> {},
      others |-> {}, text |-> MaxText],
     [detected |-> <<>>,
      keys |-> CharKeys({"j", "k", "P", "p", "T", "x", "R"})
               \cup OtherKeys({"Tab", "Enter", "Esc"}),
      mouse |-> Click({2, 6, 8}),
      others |-> {"history"}, text |-> MaxText]}
    \cup {[detected |-> <<>>,
            keys |-> CharKeys({"j", "t", "d", "x"})
                     \cup OtherKeys({"Tab", "Enter", "Esc", "Backspace"}),
            mouse |-> {},
            others |-> {}, text |-> MaxText],
           [detected |-> <<>>,
            keys |-> CharKeys({"t", "d", "x", "P", "T"})
                     \cup OtherKeys({"Tab", "Enter", "Esc", "Backspace"}),
            mouse |-> {},
            others |-> {}, text |-> MaxText],
           [detected |-> <<>>,
            keys |-> CharKeys({"j", "e", "c", "x"})
                     \cup OtherKeys({"Tab", "Enter", "Esc"}),
            mouse |-> Scroll,
            others |-> {}, text |-> MaxText]}
    \cup {[detected |-> <<>>,
            keys |-> CharKeys({"c", "e", "x"}) \cup {CharCode(HiraganaA)}
                     \cup OtherKeys({"Tab", "Enter", "Esc", "Backspace", "Delete",
                                     "Left", "Right", "Home", "End"}),
            mouse |-> {},
            others |-> {},
            text |-> MaxEdit]}
    \cup {[detected |-> Repos,
            keys |-> CharKeys({"r", "j", "d"}) \cup OtherKeys({"Tab", "Enter"}),
            mouse |-> {},
            others |-> {"tag"}, text |-> MaxText]}
    \cup {[detected |-> det,
            keys |-> CharKeys({"r", "j", "k", "q"}) \cup {Ctrl("c")}
                     \cup OtherKeys({"Tab", "Enter", "Esc"}),
            mouse |-> Click({0, 1}),
            others |-> {}, text |-> MaxText] : det \in {<<>>, <<Repos[2]>>, Repos}}

\* keeps the typed text within the bound
WithinText(key) ==
    (key.kind = "Char" /\ app.input_mode \in {"Insert", "RemoteUrl", "TagInput"}) =>
        /\ key.c \in TextChars
        /\ app.input_mode = "Insert" => Len(app.commit_message) < world.session.text
        /\ app.input_mode = "RemoteUrl" => Len(app.remote_url) < world.session.text
        /\ app.input_mode = "TagInput" => Len(app.tag_input) < world.session.text

\* what the synchronous git commands of a handler meet: git cannot be
\* started, or it runs and the remote refuses, or it runs and the remote
\* accepts
Envs ==
    {[spawn |-> FALSE, ok |-> FALSE], [spawn |-> TRUE, ok |-> FALSE],
     [spawn |-> TRUE, ok |-> TRUE]}

\* the key events whose handler runs a git command synchronously; for the
\* others the outcome of git is not drawn
RunsGit(key) ==
    \/ app.input_mode \in {"RemoteUrl", "TagInput"} /\ key.kind = "Enter"
    \/ app.input_mode = "Normal" /\ IsChar(key, "P")
    \/ app.input_mode = "Normal" /\ IsChar(key, "d") /\ app.tab = "Log"

\* the loop dispatches an input event only while no background operation is
\* active
KeyEvent(key, env) ==
    /\ fate = "run" /\ app.running
    /\ key \in world.session.keys
    /\ ~is_active(app.processing)
    /\ WithinText(key)
    /\ RunsGit(key) \/ env = [spawn |-> TRUE, ok |-> TRUE]
    /\ Becomes(handle_key(Cur, key, env))

MouseEvent(event) ==
    /\ fate = "run" /\ app.running
    /\ event \in world.session.mouse
    /\ ~is_active(app.processing)
    /\ Becomes(handle_mouse(Cur, event))

\* every tick while an operation is active: poll for its completion
Tick ==
    /\ fate = "run" /\ app.running
    /\ is_active(app.processing)
    /\ Becomes(check_processing(Ran(Cur, "tick")))

\* the idle auto-refresh, not while an operation is active
AutoRefresh ==
    /\ fate = "run" /\ app.running
    /\ ~is_active(app.processing)
    /\ Becomes(refresh_status_only(Ran(Cur, "auto_refresh")))

\* ------------------------------------------------------------------------
\* Initial state: App::new (app.rs 178-232) in one of the start directories
\* ------------------------------------------------------------------------
InitTree ==
    [r \in RepoSet |->
        IF r = Repos[1]
        THEN [k \in PathIdx |-> Blob(1, 1, 2)]
        ELSE [k \in PathIdx |->
                 IF k = 1 THEN Blob(0, 0, 1) ELSE Blob(0, 0, 0)]]

InitWorld(ses) ==
    [session |-> [keys |-> ses.keys, mouse |-> ses.mouse, others |-> ses.others,
                  text |-> ses.text],
     tree |-> InitTree,
     history |-> [r \in RepoSet |-> IF r = Repos[1] THEN MaxCommits ELSE 0],
     has_remote |-> [r \in RepoSet |-> r # Repos[1]],
     tags |-> [r \in RepoSet |->
                  [nm \in TagNameSet |->
                      IF r = Repos[1] /\ nm = TagNames[2] THEN MaxCommits ELSE 0]],
     remote_tags |-> [r \in RepoSet |-> {}],
     detected |-> ses.detected,
     ext |-> 0]

NewApp(det) ==
    [tab |-> "Files", running |-> TRUE, input_mode |-> "Normal",
     commit_message |-> <<>>, cursor_pos |-> 0, is_amending |-> FALSE,
     remote_url |-> <<>>, tag_input |-> <<>>, editing_tag |-> None,
     files |-> <<>>, visual_list |-> <<>>, commits |-> <<>>,
     files_state |-> None, commits_state |-> None,
     message |-> None,
     repo_path |-> Repos[1],
     available_repos |-> det, repo_select_state |-> None,
     processing |-> "None", processing_rx |-> None,
     status_fingerprint |-> None]

Init ==
    \E ses \in Sessions :
        LET s == refresh([app |-> NewApp(ses.detected), world |-> InitWorld(ses),
                          workers |-> <<>>, fate |-> "run", last |-> <<"new">>])
        IN  /\ app = s.app
            /\ world = s.world
            /\ workers = s.workers
            /\ fate = s.fate
            /\ last = s.last

Next ==
    \/ \E key \in Keys, env \in Envs : KeyEvent(key, env)
    \/ \E event \in MouseEvents : MouseEvent(event)
    \/ Tick
    \/ AutoRefresh
    \/ \E k \in 1..Len(workers), env \in Envs : WorkerRun(k, env)
    \/ \E k \in 1..Len(workers) : WorkerSend(k)
    \/ \E p \in ExtPaths, v \in Contents : ExternalEdit(p, v)
    \/ \E d \in {-1, 1} : ExternalHistory(d)
    \/ ExternalTag

Spec == Init /\ [][Next]_vars

\* ------------------------------------------------------------------------
\* run_git on its own: every Command::output() value within the bounds, for
\* every operation
\* ------------------------------------------------------------------------
MaxStdout == 2
MaxStderr == 2
TextsUpTo(n) == UNION {[1..m -> Pieces] : m \in 0..n}
Outputs ==
    {NotSpawned}
    \cup {Exited(success, stdout, stderr) :
            success \in BOOLEAN, stdout \in TextsUpTo(MaxStdout),
            stderr \in TextsUpTo(MaxStderr)}
Ops == {"commit", "amend", "push", "pull", "push_tags"}

\* a worker thread is about to run its command, whose outcome is
\* world.output
InitRunGit ==
    \E output \in Outputs, op \in Ops :
        /\ world = [output |-> output]
        /\ workers = <<[op |-> op, repo |-> Repos[1], connected |-> TRUE,
                        result |-> None]>>
        /\ app = NewApp(<<>>)
        /\ fate = "run"
        /\ last = <<>>

RunGitStep(k) ==
    /\ k \in 1..Len(workers)
    /\ workers[k].result = None
    /\ workers' = [workers EXCEPT ![k].result =
                      Some(run_git(world.output, SuccessMsg(workers[k].op),
                                   ErrorPrefix(workers[k].op)))]
    /\ last' = <<"run_git">>
    /\ UNCHANGED <<app, world, fate>>

NextRunGit == \E k \in 1..Len(workers) : RunGitStep(k)

SpecRunGit == InitRunGit /\ [][NextRunGit]_vars

\* ------------------------------------------------------------------------
\* The log of a commit graph: refresh_branch_info, the walk of
\* refresh_log_internal and the unpushed marks of render_log_tab, for every
\* graph within the bound. Commits are numbered in the order of their commit
\* times, and a commit is newer than its parents.
\* ------------------------------------------------------------------------
MaxGraph == 4
GraphCommits == 1..MaxGraph
Graphs ==
    {g \in [GraphCommits -> SUBSET GraphCommits] :
        \A c \in GraphCommits :
            /\ g[c] \subseteq 1..(c - 1)
            /\ Cardinality(g[c]) <= 2
            /\ c > 1 => g[c] # {}}

CommitTime(c) == c

\* the commits reachable from tip
RECURSIVE Reach(_, _)
Reach(parents, tip) ==
    {tip} \cup UNION {Reach(parents, p) : p \in parents[tip]}

\* repo.graph_ahead_behind(local, upstream)
graph_ahead_behind(parents, local, upstream) ==
    <<Cardinality(Reach(parents, local) \ Reach(parents, upstream)),
      Cardinality(Reach(parents, upstream) \ Reach(parents, local))>>

\* the revwalk with Sort::TIME: the newest commit of the queue comes next
\* and its parents join the queue
RECURSIVE RevWalk(_, _, _, _)
RevWalk(parents, queue, seen, out) ==
    IF queue = {} THEN out
    ELSE LET c == CHOOSE c \in queue :
                      \A d \in queue : CommitTime(d) <= CommitTime(c)
         IN  RevWalk(parents, (queue \ {c}) \cup (parents[c] \ seen),
                     seen \cup parents[c], Append(out, c))

\* app.rs 425-444: ahead_behind is set when HEAD and origin/<branch> resolve
\* (head and upstream are commits, or 0 when HEAD is unborn and when there
\* is no origin/<branch>); otherwise the field is not written
refresh_branch_info(a, w) ==
    IF w.head # 0 /\ w.upstream # 0
    THEN [a EXCEPT !.ahead_behind =
             Some(graph_ahead_behind(w.parents, w.head, w.upstream))]
    ELSE a

\* app.rs 465-471, 528-562: the commits of the walk from HEAD, at most LogCap
GraphLog(a, w) ==
    LET walk == RevWalk(w.parents, {w.head}, {w.head}, <<>>)
    IN  [a EXCEPT !.commits =
            [k \in 1..Min(Len(walk), LogCap) |->
                [id |-> walk[k], is_head |-> walk[k] = w.head]]]

\* ui.rs 295-302: entry i is drawn as unpushed when i < ahead
UnpushedMarks(a) ==
    LET ahead == IF a.ahead_behind = None THEN 0 ELSE Unwrap(a.ahead_behind)[1]
    IN  [k \in 1..Len(a.commits) |-> (k - 1) < ahead]

\* a repository whose branch has an upstream, before the first refresh
InitLog ==
    \E g \in Graphs, head \in GraphCommits, upstream \in GraphCommits :
        /\ world = [parents |-> g, head |-> head, upstream |-> upstream]
        /\ app = [commits |-> <<>>, ahead_behind |-> None, unpushed |-> None]
        /\ workers = <<>>
        /\ fate = "run"
        /\ last = <<"new">>

\* refresh: refresh_branch_info and refresh_log
RefreshLogStep ==
    /\ last = <<"new">>
    /\ app' = GraphLog(refresh_branch_info(app, world), world)
    /\ last' = <<"refresh">>
    /\ UNCHANGED <<world, workers, fate>>

\* the frame is drawn
RenderLogStep ==
    /\ last = <<"refresh">>
    /\ app' = [app EXCEPT !.unpushed = Some(UnpushedMarks(app))]
    /\ last' = <<"render_log_tab">>
    /\ UNCHANGED <<world, workers, fate>>

NextLog == RefreshLogStep \/ RenderLogStep

SpecLog == InitLog /\ [][NextLog]_vars

\* ------------------------------------------------------------------------
\* One character key in each input mode: the characters are the full-width
\* forms U+FF01..U+FF5E, the ideographic space and its neighbours, a
\* hiragana letter, and ASCII characters
\* ------------------------------------------------------------------------
KeyChars ==
    (65281..65374) \cup {12287, 12288, 12289, HiraganaA}
    \cup {32, 48, 57, 65, 80, 90, 97, 99, 106, 113, 120, 122}

\* the program was started, brought into the mode, and the user is about to
\* press the key of this character
InitKeys ==
    \E c \in KeyChars, mode \in {"Normal", "Insert", "RemoteUrl", "RepoSelect", "TagInput"} :
        LET ses == [detected |-> Repos, keys |-> {CharCode(c)}, mouse |-> {},
                    others |-> {}, text |-> MaxText]
            env == [spawn |-> TRUE, ok |-> TRUE]
            s0 == refresh([app |-> NewApp(ses.detected), world |-> InitWorld(ses),
                           workers |-> <<>>, fate |-> "run", last |-> <<"new">>])
            s1 == CASE mode = "Normal" -> s0
                    [] mode = "Insert" -> handle_key(s0, Char("c"), env)
                    [] mode = "RemoteUrl" -> handle_key(s0, Char("P"), env)
                    [] mode = "RepoSelect" -> handle_key(s0, Char("r"), env)
                    [] mode = "TagInput" ->
                         handle_key(handle_key(s0, Key("Tab"), env), Char("t"), env)
        IN  /\ app = s1.app
            /\ world = s1.world
            /\ workers = s1.workers
            /\ fate = s1.fate
            /\ last = <<"mode">>

KeyStep(env) ==
    /\ last = <<"mode">>
    /\ \E key \in world.session.keys : Becomes(handle_key(Cur, key, env))

NextKeys == \E env \in Envs : KeyStep(env)

SpecKeys == InitKeys /\ [][NextKeys]_vars

\* ------------------------------------------------------------------------
\* format_relative_time (app.rs 1286-1301). The text "<n> <unit>" is the
\* record [n, unit]; "just now" has n = 0.
\* ------------------------------------------------------------------------
\* a variant whose buckets include their upper limit
format_relative_time_Inclusive(now, timestamp) ==
    LET diff == now - timestamp
    IN  IF diff <= 60 THEN [n |-> 0, unit |-> "just now"]
        ELSE IF diff <= 3600 THEN [n |-> diff \div 60, unit |-> " min ago"]
        ELSE IF diff <= 86400 THEN [n |-> diff \div 3600, unit |-> " hours ago"]
        ELSE [n |-> diff \div 86400, unit |-> " days ago"]

\* app.rs 1286-1301; now is the clock's seconds since the epoch (0 when the
\* clock is before the epoch)
format_relative_time(now, timestamp) ==
    LET diff == now - timestamp
    IN  IF diff < 60 THEN [n |-> 0, unit |-> "just now"]
        ELSE IF diff < 3600 THEN [n |-> diff \div 60, unit |-> " min ago"]
        ELSE IF diff < 86400 THEN [n |-> diff \div 3600, unit |-> " hours ago"]
        ELSE [n |-> diff \div 86400, unit |-> " days ago"]

\* the ages looked at: those within TimeSpan seconds of the limits of the
\* buckets and of the ages 0, 120, 7200 and 172800
TimeSpan == 60
AgeMarks == {0, 60, 120, 3600, 7200, 86400, 172800}
Ages == UNION {(m - TimeSpan)..(m + TimeSpan) : m \in AgeMarks}
Clocks == {0, 1000000}

\* a commit with this time is about to be shown
InitTime ==
    \E now \in Clocks, age \in Ages :
        /\ world = [now |-> now, timestamp |-> now - age]
        /\ app = [time |-> None]
        /\ workers = <<>>
        /\ fate = "run"
        /\ last = <<"new">>

\* app.rs 556: the entry's time label
TimeStep ==
    /\ app.time = None
    /\ app' = [app EXCEPT !.time = Some(format_relative_time(world.now, world.timestamp))]
    /\ last' = <<"format_relative_time">>
    /\ UNCHANGED <<world, workers, fate>>

NextTime == TimeStep

SpecTime == InitTime /\ [][NextTime]_vars

\* ------------------------------------------------------------------------
\* The Files tab as drawn (ui.rs render_files_tab): the items of the list
\* widget, a header or a file each, and the item the widget highlights
\* ------------------------------------------------------------------------
\* a variant that skips one header row only
render_files_tab_OneHeader(a) ==
    LET staged == SelectSeq(a.files, LAMBDA f : f.staged)
        unstaged == SelectSeq(a.files, LAMBDA f : ~f.staged)
        item(f) == [kind |-> "file", label |-> f.path, file |-> Some(f)]
        header(label) == [kind |-> "header", label |-> label, file |-> None]
    IN  [items |-> <<header("STAGED ")>>
                   \o [k \in 1..Len(staged) |-> item(staged[k])]
                   \o <<header("CHANGES ")>>
                   \o [k \in 1..Len(unstaged) |-> item(unstaged[k])],
         selected |-> IF a.files_state = None THEN None
                      ELSE Some(Unwrap(a.files_state) + 1)]

\* ui.rs 219-259
render_files_tab(a) ==
    LET staged == SelectSeq(a.files, LAMBDA f : f.staged)
        unstaged == SelectSeq(a.files, LAMBDA f : ~f.staged)
        item(f) == [kind |-> "file", label |-> f.path, file |-> Some(f)]
        header(label) == [kind |-> "header", label |-> label, file |-> None]
    IN  [items |-> <<header("STAGED ")>>
                   \o [k \in 1..Len(staged) |-> item(staged[k])]
                   \o <<header("CHANGES ")>>
                   \o [k \in 1..Len(unstaged) |-> item(unstaged[k])],
         selected |-> IF a.files_state = None THEN None
                      ELSE LET idx == Unwrap(a.files_state)
                           IN  Some(IF idx < Len(staged) THEN idx + 1 ELSE idx + 2)]

\* ------------------------------------------------------------------------
\* refresh_branch_info over the repositories siori opens one after the
\* other: world holds the commit graph and the refs of the open repository,
\* app the field ahead_behind
\* ------------------------------------------------------------------------
\* where HEAD and origin/<branch> of a repository can point; 0: HEAD is
\* unborn, there is no origin/<branch>
RefTips == 0..MaxGraph

\* app.rs 178-232: App::new, with the refresh at its end
InitBranch ==
    \E g \in Graphs, head \in RefTips, upstream \in RefTips :
        /\ world = [parents |-> g, head |-> head, upstream |-> upstream]
        /\ app = refresh_branch_info([ahead_behind |-> None], world)
        /\ workers = <<>>
        /\ fate = "run"
        /\ last = <<"new", "refresh">>

\* app.rs 833-841: switch_repo opens a repository with other refs and
\* refreshes
BranchSwitchStep(head, upstream) ==
    /\ <<head, upstream>> # <<world.head, world.upstream>>
    /\ world' = [world EXCEPT !.head = head, !.upstream = upstream]
    /\ app' = refresh_branch_info(app, world')
    /\ last' = <<"switch_repo", "refresh">>
    /\ UNCHANGED <<workers, fate>>

\* app.rs 1123-1126: the R key refreshes the repository that is open
BranchRefreshStep ==
    /\ app' = refresh_branch_info(app, world)
    /\ last' = <<"handle_key", "refresh">>
    /\ UNCHANGED <<world, workers, fate>>

NextBranch ==
    \/ \E head \in RefTips, upstream \in RefTips : BranchSwitchStep(head, upstream)
    \/ BranchRefreshStep

SpecBranch == InitBranch /\ [][NextBranch]_vars

\* ------------------------------------------------------------------------
\* The single-file revision (main.rs): its status refresh, stage_selected
\* and handle_key, on one repository. world holds the repository only,
\* app the fields of main.rs's struct App (97-110) that the keys below
\* read or write; repo_path stands for the field repo.
\* ------------------------------------------------------------------------
\* main.rs 140-247: two-pass rebuild, then select-first and clamp (the same
\* rule as the tail of app.rs's refresh_status_internal)
main_refresh_status(s) ==
    LET fs == main_CollectFiles(Statuses(s), HasHead(s))
        vl == main_BuildVisualList(fs)
    IN  Ran([s EXCEPT !.app.files = fs,
                      !.app.visual_list = vl,
                      !.app.files_state = AdjustSelection(s.app.files_state, Len(vl))],
            "main_refresh_status")

\* 0-based position of the first entry of the list with this path and
\* staged flag (the for loop with break of main.rs 430-443)
RECURSIVE main_FindEntry(_, _, _, _, _)
main_FindEntry(fs, vl, path, staged, i) ==
    IF i > Len(vl) THEN None
    ELSE IF /\ vl[i] < Len(fs)
            /\ fs[vl[i] + 1].path = path
            /\ fs[vl[i] + 1].staged = staged
         THEN Some(i - 1)
         ELSE main_FindEntry(fs, vl, path, staged, i + 1)

\* a variant that leaves the cursor where the rebuild put it
main_stage_selected_NoFollow(s) ==
    LET a == s.app
        r == Ran(s, "main_stage_selected")
    IN
    IF a.files_state = None THEN SetMessage(r, <<"No file selected">>, TRUE)
    ELSE LET visual_idx == Unwrap(a.files_state) IN
    IF visual_idx >= Len(a.visual_list) THEN SetMessage(r, <<"Invalid selection">>, TRUE)
    ELSE LET file_index == a.visual_list[visual_idx + 1] IN
    IF file_index >= Len(a.files) THEN SetMessage(r, <<"File not found">>, TRUE)
    ELSE LET s1 == StageMutation(r, a.files[file_index + 1])
         IN  IF s1.fate # "run" THEN s1 ELSE main_refresh_status(s1)

\* main.rs 354-446; the index update and the message of 386-421 are those
\* of app.rs's stage_selected for a path that is a file
main_stage_selected(s) ==
    LET a == s.app
        r == Ran(s, "main_stage_selected")
    IN
    IF a.files_state = None THEN SetMessage(r, <<"No file selected">>, TRUE)
    ELSE LET visual_idx == Unwrap(a.files_state) IN
    IF visual_idx >= Len(a.visual_list) THEN SetMessage(r, <<"Invalid selection">>, TRUE)
    ELSE LET file_index == a.visual_list[visual_idx + 1] IN
    IF file_index >= Len(a.files) THEN SetMessage(r, <<"File not found">>, TRUE)
    ELSE LET file == a.files[file_index + 1]
             s1 == StageMutation(r, file)
             s2 == main_refresh_status(s1)
             found == main_FindEntry(s2.app.files, s2.app.visual_list,
                                     file.path, ~file.staged, 1)
         IN  IF s1.fate # "run" THEN s1
             ELSE IF found # None THEN [s2 EXCEPT !.app.files_state = found]
             ELSE s2

\* main.rs 524-571, for the keys of MainKeys
main_handle_key(s, key) ==
    LET code == IF key.kind = "Char"
                THEN [key EXCEPT !.c = normalize_fullwidth(key.c)] ELSE key
        s0 == Ran([s EXCEPT !.app.message = None], "main_handle_key")
    IN  IF s.app.input_mode = "Insert"
        THEN IF code.kind = "Esc" THEN [s0 EXCEPT !.app.input_mode = "Normal"]
             ELSE IF code.kind = "Char"
             THEN [s0 EXCEPT !.app.commit_message = Append(@, code.c)]
             ELSE s0
        ELSE IF IsChar(code, "q") THEN [s0 EXCEPT !.app.running = FALSE]
        ELSE IF code.kind = "Tab"
        THEN [s0 EXCEPT !.app.tab = IF s.app.tab = "Files" THEN "Log" ELSE "Files"]
        ELSE IF IsChar(code, "j") \/ code.kind = "Down" THEN select_next(s0)
        ELSE IF IsChar(code, "k") \/ code.kind = "Up" THEN select_prev(s0)
        ELSE IF IsChar(code, " ") /\ s.app.tab = "Files" THEN main_stage_selected(s0)
        ELSE IF IsChar(code, "c") /\ s.app.tab = "Files"
        THEN [s0 EXCEPT !.app.input_mode = "Insert"]
        ELSE IF IsChar(code, "c") /\ code.ctrl THEN [s0 EXCEPT !.app.running = FALSE]
        ELSE s0

\* the keys pressed: those of the Normal arms above, and Esc; Enter, P, p
\* and r (commit, push, pull, refresh) are not pressed
MainKeys ==
    {Char(ch) : ch \in {"q", "j", "k", " ", "c"}}
    \cup {Ctrl("c")} \cup {Key(kd) : kd \in {"Tab", "Esc"}}

\* the repository: a.txt and b.txt in any state, c.txt absent; without
\* a HEAD commit no path has HEAD content
MainTrees ==
    {tr \in [PathIdx -> [h : Contents, i : Contents, w : Contents]] :
        tr[3] = Blob(0, 0, 0)}

\* main.rs 112-131: App::new
InitMain ==
    \E tr \in MainTrees, head \in {0, 1} :
        /\ head = 0 => \A k \in PathIdx : tr[k].h = 0
        /\ LET s == main_refresh_status(
                   [app |-> [tab |-> "Files", running |-> TRUE,
                             input_mode |-> "Normal", commit_message |-> <<>>,
                             files |-> <<>>, visual_list |-> <<>>, commits |-> <<>>,
                             files_state |-> None, commits_state |-> None,
                             message |-> None, repo_path |-> Repos[1]],
                    world |-> [tree |-> [r \in RepoSet |-> tr],
                               history |-> [r \in RepoSet |-> head]],
                    workers |-> <<>>, fate |-> "run", last |-> <<"new">>])
           IN  /\ app = s.app
               /\ world = s.world
               /\ workers = s.workers
               /\ fate = s.fate
               /\ last = s.last

\* one turn of the loop of main.rs: a key goes to handle_key while running;
\* in Insert mode only c is typed, up to MaxText characters
MainKeyStep(key) ==
    /\ fate = "run"
    /\ app.running
    /\ (app.input_mode = "Insert" /\ key.kind = "Char") =>
           (key.c = Ord("c") /\ Len(app.commit_message) < MaxText)
    /\ Becomes(main_handle_key(Cur, key))

NextMain == \E key \in MainKeys : MainKeyStep(key)

SpecMain == InitMain /\ [][NextMain]_vars

\* ENABLED <<Tick>>_vars written out: Tick has exactly one successor, so it
\* is enabled as a non-stuttering step where its guard holds and that
\* successor differs from the current state
TickEnabled ==
    /\ fate = "run" /\ app.running
    /\ is_active(app.processing)
    /\ LET s == check_processing(Ran(Cur, "tick"))
       IN  <<s.app, s.world, s.workers, s.fate, s.last>>
               # <<app, world, workers, fate, last>>

\* the scheduling: every git command a thread runs terminates, the thread
\* then sends its result, and the loop calls check_processing on every tick
\* while an operation is active (WF_vars(Tick), with its ENABLED written out)
Fairness ==
    /\ WF_vars(\E k \in 1..Len(workers), env \in Envs : WorkerRun(k, env))
    /\ WF_vars(\E k \in 1..Len(workers) : WorkerSend(k))
    /\ ([]<>(~TickEnabled) \/ []<><<Tick>>_vars)

\* the sessions in which background operations are looked at: those of
\* Sessions without mouse clicks and external changes, and three compact
\* ones that have them
LiveSessions ==
    {ses \in Sessions : ses.mouse \subseteq Scroll /\ ses.others = {}}
    \cup {[detected |-> <<>>,
            keys |-> CharKeys({"c", "x"}) \cup OtherKeys({"Enter"}),
            mouse |-> {}, others |-> {"edit"}, text |-> MaxText],
           [detected |-> <<>>,
            keys |-> CharKeys({"P", "p", "T", "x"}) \cup OtherKeys({"Tab", "Enter"}),
            mouse |-> Click({2}), others |-> {"history"}, text |-> MaxText],
           [detected |-> <<>>,
            keys |-> CharKeys({"p"}) \cup OtherKeys({"Tab"}),
            mouse |-> {}, others |-> {"tag"}, text |-> MaxText]}

InitLive ==
    \E ses \in LiveSessions :
        LET s == refresh([app |-> NewApp(ses.detected), world |-> InitWorld(ses),
                          workers |-> <<>>, fate |-> "run", last |-> <<"new">>])
        IN  /\ app = s.app
            /\ world = s.world
            /\ workers = s.workers
            /\ fate = s.fate
            /\ last = s.last

SpecLive == InitLive /\ [][Next]_vars /\ Fairness

\* ------------------------------------------------------------------------
\* Properties
\* ------------------------------------------------------------------------
Did(name) == \E k \in 1..Len(last) : last[k] = name

InRange(sel, len) == sel # None /\ Unwrap(sel) \in 0..(len - 1)
Consistent(sel, len) == IF len = 0 THEN sel = None ELSE InRange(sel, len)

PathsOf(fs) == [k \in 1..Len(fs) |-> fs[k].path]

\* the entries in the order the list shows them
Shown(fs, vl) == [k \in 1..Len(vl) |-> fs[vl[k] + 1]]


\* a step in which stage_selected acted on a selected entry and returned Ok
StageStep ==
    /\ \E k \in 1..Len(last') : last'[k] = "stage_selected"
    /\ \E k \in 1..Len(last') : last'[k] = "rebuild_files"
    /\ fate' = "run"
    /\ InRange(app.files_state, Len(app.visual_list))

Selected(a) == Shown(a.files, a.visual_list)[Unwrap(a.files_state) + 1]

C3_FileCursorValid ==
    /\ fate # "panic"
    /\ Consistent(app.files_state, Len(app.visual_list))

\* the only unstaged file was staged into an empty staged section
C3_Witness ==
    /\ Did("stage_selected") /\ Did("rebuild_files")
    /\ Len(app.visual_list) = 1
    /\ Shown(app.files, app.visual_list)[1].staged
    /\ app.files_state = Some(0)

IsPermutation(vl, n) ==
    /\ Len(vl) = n
    /\ \A x \in 0..(n - 1) : Cardinality({k \in 1..Len(vl) : vl[k] = x}) = 1

main_Files == main_CollectFiles(StatusScan(world.tree[app.repo_path]),
                                world.history[app.repo_path] > 0)

\* C6: VisualList is a permutation of the indices of FileEntries, for the
\* list App holds (app.rs) and for the list the two-pass builder of main.rs
\* makes of the same status scan.
C6_VisualListPermutation ==
    /\ IsPermutation(app.visual_list, Len(app.files))
    /\ IsPermutation(main_BuildVisualList(main_Files), Len(main_Files))

\* a rebuild of a list with entries in both sections, the staged one not
\* first in the scan
C6_Witness ==
    /\ Did("rebuild_files")
    /\ Len(app.files) >= 3
    /\ ~app.files[1].staged
    /\ \E k \in 1..Len(app.files) : app.files[k].staged

StagedPrefix(shown) ==
    \E n \in 0..Len(shown) :
        /\ \A k \in 1..n : shown[k].staged
        /\ \A k \in (n + 1)..Len(shown) : ~shown[k].staged
ScanPaths(statuses, staged) ==
    SeqConcat([k \in 1..Len(statuses) |->
        IF (IF staged THEN statuses[k].idx ELSE statuses[k].wt) # "-"
        THEN <<statuses[k].path>> ELSE <<>>])
IsStaged(f) == f.staged
IsUnstaged(f) == ~f.staged
InScanOrder(shown, statuses) ==
    /\ PathsOf(SelectSeq(shown, IsStaged)) = ScanPaths(statuses, TRUE)
    /\ PathsOf(SelectSeq(shown, IsUnstaged)) = ScanPaths(statuses, FALSE)

\* C7: after a file rebuild the shown entries are the staged ones (a
\* prefix) and then the unstaged ones (the suffix), each group in the order
\* of the status scan; both for app.rs and for the builder of main.rs.
C7_StagedFirstInScanOrder ==
    LET statuses == StatusScan(world.tree[app.repo_path])
        shown == Shown(app.files, app.visual_list)
        main_shown == Shown(main_Files, main_BuildVisualList(main_Files))
    IN  /\ Did("rebuild_files") =>
            (StagedPrefix(shown) /\ InScanOrder(shown, statuses))
        /\ StagedPrefix(main_shown) /\ InScanOrder(main_shown, statuses)

\* a rebuild where a later path is staged and earlier ones are not, and one
\* path has both a staged and an unstaged entry
C7_Witness ==
    /\ Did("rebuild_files")
    /\ Len(app.files) >= 4
    /\ ~app.files[1].staged
    /\ \E k \in 1..(Len(app.files) - 1) :
          /\ app.files[k].staged /\ ~app.files[k + 1].staged
          /\ app.files[k].path = app.files[k + 1].path

DidNext(name) == \E k \in 1..Len(last') : last'[k] = name

\* C1: at most one background operation is in flight: there is never a
\* second worker thread, every thread sends to the channel App holds, and a
\* thread exists only while Processing is active.
C1_OneOperationInFlight ==
    /\ Len(workers) <= 1
    /\ \A k \in 1..Len(workers) :
          /\ workers[k].connected
          /\ is_active(app.processing)
          /\ app.processing_rx # None

\* an operation has returned in its thread and Processing is still active
C1_Witness ==
    /\ Len(workers) = 1
    /\ workers[1].result # None
    /\ app.processing = "Pushing"

\* C4: after every log rebuild the commit cursor is None when the commit
\* list is empty and an index into the list otherwise.
C4_CommitCursorValid ==
    Did("rebuild_log") => Consistent(app.commits_state, Len(app.commits))

\* C5: while the repository picker is open its cursor is None when no
\* repository is available and an index into available_repos otherwise.
C5_RepoCursorValid ==
    app.input_mode = "RepoSelect" =>
        Consistent(app.repo_select_state, Len(app.available_repos))

\* a refresh, full (R, or a completed operation) or cheap (auto-refresh)
WasRefresh == Did("refresh") \/ Did("auto_refresh") \/ Did("check_processing")
IsRefresh == DidNext("refresh") \/ DidNext("auto_refresh")

\* C8: a refresh that directly follows a refresh (nothing happened to the
\* repository and the user did nothing in between) leaves the file cursor
\* and the commit cursor where they were.
C8_RefreshIdempotent ==
    [][(WasRefresh /\ IsRefresh /\ world' = world) =>
          /\ app'.files_state = app.files_state
          /\ app'.commits_state = app.commits_state]_vars

\* C9: in the state a cheap status refresh leaves, a second cheap status
\* refresh of the same repository state finds the fingerprint unchanged and
\* skips the rebuild, so FileEntries and VisualList are what the first call
\* left.
C9_CheapRefreshTwice ==
    Did("auto_refresh") =>
        LET second == refresh_status_internal(Cur, FALSE)
        IN  /\ second.last = <<"skip_rebuild">>
            /\ second.app.files = app.files
            /\ second.app.visual_list = app.visual_list

\* a cheap refresh has rebuilt a list with entries after a change from
\* outside
C9_Witness ==
    /\ Did("auto_refresh") /\ Did("rebuild_files")
    /\ app.status_fingerprint = Some(compute_status_fingerprint(Statuses(Cur)))
    /\ app.files # <<>>
    /\ \A k \in 1..Len(app.files) : app.files[k].diff_stats = None
    /\ world.ext > 0

\* C10: a cheap refresh that directly follows a full refresh skips the
\* rebuild and leaves FileEntries with their diff_stats, VisualList and the
\* cursor as the full refresh left them.
C10_CheapAfterFullSkips ==
    [][(Did("rebuild_files") /\ ~Did("auto_refresh") /\ DidNext("auto_refresh")) =>
          /\ DidNext("skip_rebuild")
          /\ app'.files = app.files
          /\ app'.visual_list = app.visual_list
          /\ app'.files_state = app.files_state]_vars

\* what a full refresh shows of the repository App has open
FullFiles(s) == ScanPass(Statuses(s), EmptyPass, TRUE, HasHead(s)).files
ShowsRepository(s) ==
    /\ s.app.files = FullFiles(s)
    /\ IsPermutation(s.app.visual_list, Len(s.app.files))
    /\ s.app.commits = CommitEntries(s, TRUE)

Delivered == app.processing_rx # None /\ Unwrap(app.processing_rx) # <<>>

\* C11: in every state, check_processing with a delivered result sets the
\* message to the result text, error-flagged exactly for the error variant,
\* resets Processing, drops the channel and refreshes everything, whether
\* the operation failed or not; without a delivered result it changes
\* nothing.
C11_CheckProcessing ==
    LET after == check_processing(Cur)
    IN  IF Delivered
        THEN LET result == Head(Unwrap(app.processing_rx))
             IN  /\ after.app.message =
                        Some([text |-> result.text, is_error |-> ~result.ok])
                 /\ after.app.processing = "None"
                 /\ after.app.processing_rx = None
                 /\ ShowsRepository(after)
                 /\ after.world = world
        ELSE after = Cur

\* check_processing has handled the result of a failed commit and shows the
\* files that are still staged
C11_Witness ==
    /\ Did("check_processing") /\ Did("rebuild_files") /\ Did("rebuild_log")
    /\ app.message # None /\ Unwrap(app.message).is_error
    /\ Unwrap(app.message).text[1] = "Commit failed"
    /\ app.processing = "None" /\ app.processing_rx = None
    /\ StagedCount(app.files) > 0

\* the state a step leads to
After == [app |-> app', world |-> world', workers |-> workers', fate |-> fate',
          last |-> last']

\* the thread whose channel App holds has not returned from its operation
OperationRunning ==
    \E k \in 1..Len(workers) : workers[k].connected /\ workers[k].result = None

\* C12: Processing is reset to None, and check_processing refreshes, only in
\* a step that starts when the operation has returned and its result has
\* been received; what is shown after that step is the repository as the
\* operation left it.
C12_RefreshAfterCompletion ==
    [][((app.processing # "None" /\ app'.processing = "None")
        \/ DidNext("check_processing")) =>
          /\ DidNext("check_processing")
          /\ Delivered
          /\ ~OperationRunning
          /\ world' = world
          /\ ShowsRepository(After)]_vars

\* a pull that fetched a commit has completed and the log shows the commit
C12_Witness ==
    /\ Did("check_processing")
    /\ app.message # None
    /\ Unwrap(app.message).text = <<"Pulled successfully">>
    /\ world.ext > 0
    /\ Len(app.commits) = world.history[app.repo_path]
    /\ Len(app.commits) = MaxCommits

C14_ProcessingEnds ==
    (app.processing # "None") ~> (app.processing = "None")

\* a failed push has been handled and Processing is None again
C14_Witness ==
    /\ Did("check_processing")
    /\ app.processing = "None"
    /\ app.message # None
    /\ Unwrap(app.message).text[1] = "Push failed"

InputModes == {"Normal", "Insert", "RemoteUrl", "RepoSelect", "TagInput"}
Called(s, name) == \E k \in 1..Len(s.last) : s.last[k] = name
MessageIs(s, first, is_error) ==
    /\ s.app.message # None
    /\ Unwrap(s.app.message).text[1] = first
    /\ Unwrap(s.app.message).is_error = is_error

\* C15: the input mode is one of the five modes; in every state Esc in a
\* mode other than Normal gives Normal and neither runs nor starts a git
\* operation (repository, worker threads and Processing are untouched); and
\* an Enter that completes the modal action (commit accepted, remote added
\* and pushed, repository switched, tag created) gives Normal.
C15_ModesAndEsc ==
    /\ app.input_mode \in InputModes
    /\ \A env \in Envs :
         LET esc == handle_key(Cur, Key("Esc"), env)
             enter == handle_key(Cur, Key("Enter"), env)
         IN  /\ app.input_mode # "Normal" =>
                   /\ esc.app.input_mode = "Normal"
                   /\ esc.world = world
                   /\ esc.workers = workers
                   /\ esc.app.processing = app.processing
                   /\ esc.app.processing_rx = app.processing_rx
                   /\ esc.fate = fate
             /\ (app.input_mode = "Insert" /\ Called(enter, "start_processing")) =>
                   enter.app.input_mode = "Normal"
             /\ (app.input_mode = "RemoteUrl"
                 /\ MessageIs(enter, "Remote added & pushed!", FALSE)) =>
                   enter.app.input_mode = "Normal"
             /\ (app.input_mode = "RepoSelect"
                 /\ enter.app.repo_path # app.repo_path) =>
                   enter.app.input_mode = "Normal"
             /\ (app.input_mode = "TagInput"
                 /\ (MessageIs(enter, "Created tag: ", FALSE)
                     \/ MessageIs(enter, "Tag updated: ", FALSE))) =>
                   enter.app.input_mode = "Normal"

\* Esc has just cancelled the remote URL dialog
C15_Witness ==
    /\ last = <<"handle_key">>
    /\ app.message = Some([text |-> <<"Cancelled">>, is_error |-> FALSE])
    /\ app.input_mode = "Normal"
    /\ app.processing = "None"
    /\ workers = <<>>

\* C16: a stage / unstage whose repository operation fails is caught:
\* handle_key returns normally and the loop goes on (fate stays "run"), with
\* an error-flagged message.
C16_StageFailureCaught ==
    Did("stage_selected") =>
        /\ fate = "run"
        /\ app.message # None

\* the state s with nothing but an error-flagged message set
OnlyErrorMessage(s, text) ==
    /\ s.app = [app EXCEPT !.message = Some([text |-> text, is_error |-> TRUE])]
    /\ s.world = world
    /\ s.workers = workers
    /\ s.fate = fate

\* C17: Enter on an empty or whitespace-only commit message (Insert), Enter
\* on an empty remote URL (RemoteUrl) and Space in the Files tab with no file
\* selected or with a selection out of range change nothing but the message,
\* which is error-flagged; no git operation runs or starts.
C17_InputErrorsOnlyMessage ==
    \A env \in Envs :
        LET enter == handle_key(Cur, Key("Enter"), env)
            space == handle_key(Cur, Char(" "), env)
        IN  /\ (app.input_mode = "Insert" /\ IsBlank(app.commit_message)) =>
                  OnlyErrorMessage(enter, <<"Empty commit message">>)
            /\ (app.input_mode = "RemoteUrl" /\ IsBlank(app.remote_url)) =>
                  OnlyErrorMessage(enter, <<"URL is empty">>)
            /\ (app.input_mode = "Normal" /\ app.tab = "Files"
                /\ app.files_state = None) =>
                  OnlyErrorMessage(space, <<"No file selected">>)
            /\ (app.input_mode = "Normal" /\ app.tab = "Files"
                /\ app.files_state # None
                /\ Unwrap(app.files_state) >= Len(app.visual_list)) =>
                  OnlyErrorMessage(space, <<"Invalid selection">>)

\* Enter has just been pressed on a whitespace-only commit message
C17_Witness ==
    /\ Did("commit")
    /\ app.message = Some([text |-> <<"Empty commit message">>, is_error |-> TRUE])
    /\ app.input_mode = "Insert"
    /\ app.commit_message = <<32>>
    /\ app.processing = "None"

\* C18: key e in the Log tab (Normal mode): when the selected commit is the
\* list's HEAD entry the mode becomes Insert with is_amending set, the commit
\* message pre-filled with that commit's message and the cursor at its end;
\* when another commit is selected only an error message is set; with no
\* commit selected nothing happens. Insert is entered in the first case only.
C18_AmendOnlyHead ==
    (app.input_mode = "Normal" /\ app.tab = "Log") =>
        \A env \in Envs :
            LET e == handle_key(Cur, Char("e"), env)
                valid == InRange(app.commits_state, Len(app.commits))
                sel == app.commits[Unwrap(app.commits_state) + 1]
            IN  /\ e.world = world /\ e.workers = workers /\ e.fate = fate
                /\ (valid /\ sel.is_head) =>
                      e.app = [app EXCEPT !.message = None,
                                          !.input_mode = "Insert",
                                          !.is_amending = TRUE,
                                          !.commit_message = sel.message,
                                          !.cursor_pos = ByteLen(sel.message),
                                          !.tab = "Files"]
                /\ (valid /\ ~sel.is_head) =>
                      e.app = [app EXCEPT !.message =
                                  Some([text |-> <<"Can only amend HEAD commit">>,
                                        is_error |-> TRUE])]
                /\ ~valid => e.app = [app EXCEPT !.message = None]

\* e has just been pressed on a commit that is not HEAD
C18_Witness ==
    /\ Did("start_amend")
    /\ MessageIs(Cur, "Can only amend HEAD commit", TRUE)
    /\ app.input_mode = "Normal"
    /\ app.tab = "Log"
    /\ ~app.is_amending
    /\ app.commits_state = Some(1)

\* C19: key P in Normal mode: when the open repository has no remote
\* "origin" the mode becomes RemoteUrl with an empty URL buffer and the
\* explanatory message, Processing stays None and no thread is started; when
\* it has one, a push is started in the background with Processing = Pushing.
C19_PushNeedsRemote ==
    (app.input_mode = "Normal" /\ app.processing = "None") =>
        \A env \in Envs :
            LET p == handle_key(Cur, Char("P"), env)
            IN  IF ~world.has_remote[app.repo_path]
                THEN /\ p.app = [app EXCEPT
                                   !.input_mode = "RemoteUrl",
                                   !.remote_url = <<>>,
                                   !.message = Some([text |-> <<"No remote configured. Enter repository URL:">>,
                                                     is_error |-> TRUE])]
                     /\ p.workers = workers
                     /\ p.world = world
                ELSE /\ p.app.processing = "Pushing"
                     /\ p.app.input_mode = "Normal"
                     /\ Len(p.workers) = Len(workers) + 1
                     /\ p.workers[Len(p.workers)].op = "push"
                     /\ p.workers[Len(p.workers)].repo = app.repo_path
                     /\ p.world = world

\* the two pieces of phrase, one right after the other, somewhere in text
HasPhrase(text, phrase) ==
    \E i \in 1..(Len(text) - 1) : text[i] = phrase[1] /\ text[i + 1] = phrase[2]

\* C20: run_git gives the success variant (with the success message) exactly
\* when git was started, exited successfully and stdout followed by stderr
\* contains neither "nothing to commit" nor "no changes added"; otherwise it
\* gives the error variant, which starts with the operation's error prefix;
\* it always returns (no panic, the process goes on).
C20_RunGitResult ==
    \A k \in 1..Len(workers) :
        workers[k].result # None =>
            LET r == Unwrap(workers[k].result)
                o == world.output
                combined == o.stdout \o o.stderr
                noop == \/ HasPhrase(combined, NothingToCommit)
                        \/ HasPhrase(combined, NoChangesAdded)
            IN  /\ r.ok <=> (o.spawned /\ o.success /\ ~noop)
                /\ r.ok => r.text = <<SuccessMsg(workers[k].op)>>
                /\ ~r.ok => /\ Len(r.text) >= 2
                            /\ r.text[1] = ErrorPrefix(workers[k].op)
                            /\ r.text[2] = ": "
                /\ fate = "run"

\* git exited successfully with "nothing to commit" lying across the seam of
\* stdout and stderr, and run_git has returned the error variant
C20_Witness ==
    /\ last = <<"run_git">>
    /\ world.output = Exited(TRUE, <<"x", "nothing to c">>, <<"ommit">>)
    /\ workers[1].op = "commit"
    /\ workers[1].result =
           Some([ok |-> FALSE,
                 text |-> <<"Commit failed", ": ", "x", "nothing to c", "ommit">>])

\* C21: a non-zero exit of a synchronous git command of a tag action (tag
\* -f, tag -d, the push that deletes the remote tag) is reported as an
\* error-flagged message: "Created tag" / "Tag updated" is shown only when
\* `git tag -f` succeeded, and "Deleted tag" only when `git tag -d` and, for
\* a pushed tag, the deletion on the remote succeeded.
C21_TagFailuresReported ==
    \A env \in {e \in Envs : e.spawn} :
        LET valid == InRange(app.commits_state, Len(app.commits))
            sel == app.commits[Unwrap(app.commits_state) + 1]
            d == handle_key(Cur, Char("d"), env)
            enter == handle_key(Cur, Key("Enter"), env)
        IN  /\ (app.input_mode = "Normal" /\ app.tab = "Log" /\ valid
                /\ sel.tags # <<>>) =>
                  IF /\ git_tag_delete_ok(world, sel.tags[1].name)
                     /\ sel.tags[1].pushed =>
                            git_push_delete_ok(world, sel.tags[1].name, env)
                  THEN MessageIs(d, "Deleted tag: ", FALSE)
                  ELSE d.app.message # None /\ Unwrap(d.app.message).is_error
            /\ (app.input_mode = "TagInput" /\ valid
                /\ (MessageIs(enter, "Created tag: ", FALSE)
                    \/ MessageIs(enter, "Tag updated: ", FALSE))) =>
                  git_tag_force_ok(world, Trim(app.tag_input), app.repo_path, sel.id)

\* the tags of a commit list, as a set
TagsIn(commits) ==
    {commits[k].tags[t] : <<k, t>> \in
        {<<k, t>> \in (1..Len(commits)) \X (1..Len(TagNames)) :
            t <= Len(commits[k].tags)}}

\* C22: in every state a cheap log rebuild lists no remote tags and leaves
\* the repositories and the remote alone, and every tag of the rebuilt list
\* has the pushed value its name had in the list before the rebuild, and
\* pushed = false when the name was not in that list.
C22_CheapRebuildKeepsPushed ==
    LET after == refresh_log_local(Cur)
    IN  /\ ~Called(after, "ls_remote")
        /\ after.world = world
        /\ \A tag \in TagsIn(after.app.commits) :
              LET before == {old \in TagsIn(app.commits) : old.name = tag.name}
              IN  IF before = {} THEN ~tag.pushed
                  ELSE \A old \in before : tag.pushed = old.pushed

\* a cheap rebuild has kept pushed = true for a tag
C22_Witness ==
    /\ Did("auto_refresh") /\ Did("rebuild_log") /\ ~Did("ls_remote")
    /\ \E tag \in TagsIn(app.commits) : tag.pushed

\* C23: the commits the log draws as unpushed (the first ahead entries of
\* the walk) are exactly the commits of the walk that are not reachable from
\* the upstream tip, for every commit graph.
C23_UnpushedAreAhead ==
    Did("render_log_tab") =>
        \A k \in 1..Len(app.commits) :
            Unwrap(app.unpushed)[k]
                <=> app.commits[k].id \notin Reach(world.parents, world.upstream)

\* C24: in every state a left click in the Files tab on the row where the
\* file at visual index i is drawn selects i, and a click on any other row
\* of the content (a header row, a row below the last file) leaves the
\* selection as it is; in the Log tab a click on either row of commit k
\* selects k, and a click elsewhere leaves the selection as it is.
C24_ClickSelectsDrawnRow ==
    \A y \in main_ContentTop..MaxRow :
        LET c == handle_click(Cur, y)
            files == {i \in 0..(Len(app.visual_list) - 1) : main_FileRow(app, i) = y}
            log == {k \in 0..(Len(app.commits) - 1) : y \in main_CommitRows(k)}
        IN  IF app.tab = "Files"
            THEN /\ \A i \in files : c.app.files_state = Some(i)
                 /\ files = {} => c.app.files_state = app.files_state
            ELSE /\ \A k \in log : c.app.commits_state = Some(k)
                 /\ log = {} => c.app.commits_state = app.commits_state

\* C25: in every state, for the list of the current tab and for the
\* repository picker: next and prev change nothing on an empty list; from no
\* selection or a selection in range they give a selection in range and
\* change nothing else; next from the last index gives 0, prev from 0 gives
\* the last index; and from a selection in range next then prev, and prev
\* then next, give the same index again.
C25_NavigationWraps ==
    LET len == current_list_len(Cur)
        sel == current_state(Cur)
        nx == select_next(Cur)
        pv == select_prev(Cur)
        rlen == Len(app.available_repos)
        rsel == app.repo_select_state
        rnx == repo_select_next(Cur)
        rpv == repo_select_prev(Cur)
    IN  /\ len = 0 => nx.app = app /\ pv.app = app
        /\ (len > 0 /\ (sel = None \/ InRange(sel, len))) =>
              /\ InRange(current_state(nx), len)
              /\ InRange(current_state(pv), len)
              /\ nx.app = SetCurrentState(Cur, current_state(nx)).app
              /\ pv.app = SetCurrentState(Cur, current_state(pv)).app
        /\ InRange(sel, len) =>
              /\ Unwrap(sel) = len - 1 => current_state(nx) = Some(0)
              /\ Unwrap(sel) = 0 => current_state(pv) = Some(len - 1)
              /\ current_state(select_prev(nx)) = sel
              /\ current_state(select_next(pv)) = sel
        /\ rlen = 0 => rnx.app = app /\ rpv.app = app
        /\ (rlen > 0 /\ (rsel = None \/ InRange(rsel, rlen))) =>
              /\ InRange(rnx.app.repo_select_state, rlen)
              /\ InRange(rpv.app.repo_select_state, rlen)
              /\ rnx.app = [app EXCEPT !.repo_select_state = rnx.app.repo_select_state]
              /\ rpv.app = [app EXCEPT !.repo_select_state = rpv.app.repo_select_state]
        /\ InRange(rsel, rlen) =>
              /\ Unwrap(rsel) = rlen - 1 => rnx.app.repo_select_state = Some(0)
              /\ Unwrap(rsel) = 0 => rpv.app.repo_select_state = Some(rlen - 1)
              /\ repo_select_prev(rnx).app.repo_select_state = rsel
              /\ repo_select_next(rpv).app.repo_select_state = rsel
        /\ nx.world = world /\ pv.world = world /\ rnx.world = world /\ rpv.world = world
        /\ nx.fate = fate /\ pv.fate = fate /\ rnx.fate = fate /\ rpv.fate = fate

\* select_next has just wrapped from the last of three files to the first
C25_Witness ==
    /\ Did("select_next")
    /\ app.tab = "Files"
    /\ Len(app.visual_list) >= 3
    /\ app.files_state = Some(0)

\* the state s differs from the current one in the commit message and the
\* cursor only, which are msg and pos
EditedTo(s, msg, pos) ==
    /\ s.app = [app EXCEPT !.message = None, !.commit_message = msg,
                           !.cursor_pos = pos]
    /\ s.world = world /\ s.workers = workers /\ s.fate = fate

\* C26: in every state cursor_pos is between 0 and the byte length of
\* commit_message and on a character boundary, and no handler panics; and in
\* Insert mode, with the cursor before character k: Left puts it before
\* character k - 1 (or leaves it at 0), Right before character k + 1 (or
\* leaves it at the end), Home at 0, End at the end, Backspace removes
\* character k - 1 and puts the cursor where it started, Delete removes
\* character k and leaves the cursor, and a typed character becomes character
\* k with the cursor right after it.
C26_CursorOnBoundary ==
    LET msg == app.commit_message
        n == Len(msg)
        at == CharAt(msg, app.cursor_pos)
        k == Unwrap(at)
        Press(key) == handle_key(Cur, key, [spawn |-> TRUE, ok |-> TRUE])
        From(i) == SubSeq(msg, i, n)
        Upto(i) == SubSeq(msg, 1, i)
    IN  /\ fate # "panic"
        /\ app.cursor_pos \in 0..ByteLen(msg)
        /\ at # None
        /\ app.input_mode = "Insert" =>
              /\ EditedTo(Press(Key("Left")), msg,
                          IF k = 1 THEN 0 ELSE ByteLen(Upto(k - 2)))
              /\ EditedTo(Press(Key("Right")), msg,
                          IF k > n THEN ByteLen(msg) ELSE ByteLen(Upto(k)))
              /\ EditedTo(Press(Key("Home")), msg, 0)
              /\ EditedTo(Press(Key("End")), msg, ByteLen(msg))
              /\ EditedTo(Press(Key("Backspace")),
                          IF k = 1 THEN msg ELSE Upto(k - 2) \o From(k),
                          IF k = 1 THEN 0 ELSE ByteLen(Upto(k - 2)))
              /\ EditedTo(Press(Key("Delete")),
                          IF k > n THEN msg ELSE Upto(k - 1) \o From(k + 1),
                          app.cursor_pos)
              /\ \A c \in TextChars :
                    EditedTo(Press(CharCode(c)),
                             Upto(k - 1) \o <<c>> \o From(k),
                             app.cursor_pos + len_utf8(c))

\* the cursor is between a three-byte character and "x", in a message that
\* starts with "x"
C26_Witness ==
    /\ app.input_mode = "Insert"
    /\ app.commit_message = <<120, HiraganaA, 120>>
    /\ app.cursor_pos = 4
    /\ last = <<"handle_key">>

\* the text buffer of the text-entry mode state s is in
Buffer(s) ==
    IF s.app.input_mode = "RemoteUrl" THEN s.app.remote_url ELSE s.app.tag_input

\* C27: RemoteUrl and TagInput edit their buffer at an insertion point as
\* Insert does. Wherever the insertion point is, with a non-empty buffer
\* Left followed by Delete removes one character (the one Left stepped
\* over, or the first one), and Left followed by a character the buffer does
\* not hold gives something other than the buffer with the character at its
\* end.
C27_UrlAndTagPointCursor ==
    (app.input_mode \in {"RemoteUrl", "TagInput"} /\ Buffer(Cur) # <<>>) =>
        LET env == [spawn |-> TRUE, ok |-> TRUE]
            left == handle_key(Cur, Key("Left"), env)
            buf == Buffer(Cur)
        IN  /\ left.app.input_mode = app.input_mode
            /\ Buffer(left) = buf
            /\ Len(Buffer(handle_key(left, Key("Delete"), env))) = Len(buf) - 1
            /\ \A c \in TextChars \ {buf[k] : k \in 1..Len(buf)} :
                  Buffer(handle_key(left, CharCode(c), env)) # Append(buf, c)

\* the number of FileEntries with this path and staged flag
EntriesFor(fs, path, staged) ==
    Cardinality({k \in 1..Len(fs) : fs[k].path = path /\ fs[k].staged = staged})

Folded(c) ==
    IF c \in (65345..65370) \cup (65313..65338) \cup (65296..65305) THEN c - 65248
    ELSE IF c = 12288 THEN 32
    ELSE c

\* C29: normalize_fullwidth maps the full-width letters and digits to the
\* ASCII character at the same offset and U+3000 to the space, leaves every
\* other character as it is and is idempotent; and handle_key works on the
\* folded character in every input mode: the key has the effect of the key
\* of the folded character, which is inserted in Insert mode, appended to
\* the buffer in RemoteUrl and TagInput mode, and is the command in Normal
\* and RepoSelect mode.
C29_FullwidthFolded ==
    \A key \in world.session.keys :
        LET c == key.c
            n == normalize_fullwidth(c)
        IN  /\ n = Folded(c)
            /\ normalize_fullwidth(n) = n
            /\ \A env \in Envs :
                  LET h == handle_key(Cur, key, env)
                  IN  /\ h = handle_key(Cur, CharCode(Folded(c)), env)
                      /\ (app.input_mode = "Insert" /\ fate = "run") =>
                            /\ Len(h.app.commit_message) = Len(app.commit_message) + 1
                            /\ Folded(c) \in {h.app.commit_message[k] :
                                                  k \in 1..Len(h.app.commit_message)}
                            /\ c # Folded(c) =>
                                  c \notin {h.app.commit_message[k] :
                                               k \in 1..Len(h.app.commit_message)}
                      /\ app.input_mode = "RemoteUrl" =>
                            h.app.remote_url = Append(app.remote_url, Folded(c))
                      /\ app.input_mode = "TagInput" =>
                            h.app.tag_input = Append(app.tag_input, Folded(c))
                      /\ (app.input_mode = "Normal" /\ Folded(c) = 113) =>
                            ~h.app.running
                      /\ (app.input_mode = "RepoSelect" /\ Folded(c) = 106) =>
                            h.app.repo_select_state =
                                repo_select_next(Cur).app.repo_select_state

\* the full-width q (U+FF51) was pressed in Normal mode and the program is
\* about to quit
C29_Witness ==
    /\ Did("handle_key")
    /\ world.session.keys = {CharCode(65361)}
    /\ app.input_mode = "Normal"
    /\ ~app.running

\* C30: with diff = now - timestamp, format_relative_time gives "just now"
\* for diff < 60 (a timestamp in the future included), "<q> min ago" for
\* 60 <= diff < 3600, "<q> hours ago" for 3600 <= diff < 86400 and
\* "<q> days ago" for diff >= 86400, q being the number of whole units in
\* diff; ages of 0, 120, 7200 and 172800 seconds give "just now",
\* "2 min ago", "2 hours ago" and "2 days ago".
C30_RelativeTimeBuckets ==
    Did("format_relative_time") =>
        LET diff == world.now - world.timestamp
            t == Unwrap(app.time)
            Whole(unit) == t.n * unit <= diff /\ diff < (t.n + 1) * unit
        IN  /\ t.unit = "just now" <=> diff < 60
            /\ t.unit = " min ago" <=> (60 <= diff /\ diff < 3600)
            /\ t.unit = " hours ago" <=> (3600 <= diff /\ diff < 86400)
            /\ t.unit = " days ago" <=> diff >= 86400
            /\ t.unit = "just now" => t.n = 0
            /\ t.unit = " min ago" => Whole(60)
            /\ t.unit = " hours ago" => Whole(3600)
            /\ t.unit = " days ago" => Whole(86400)
            /\ diff = 0 => t = [n |-> 0, unit |-> "just now"]
            /\ diff = 120 => t = [n |-> 2, unit |-> " min ago"]
            /\ diff = 7200 => t = [n |-> 2, unit |-> " hours ago"]
            /\ diff = 172800 => t = [n |-> 2, unit |-> " days ago"]

\* a commit made 7200 seconds ago is shown as "2 hours ago"
C30_Witness ==
    /\ Did("format_relative_time")
    /\ world.now - world.timestamp = 7200
    /\ app.time = Some([n |-> 2, unit |-> " hours ago"])


\* the 0-based visual positions of the entries with this path and staged flag
VisualMatches(a, path, staged) ==
    {i \in 0..(Len(a.visual_list) - 1) :
        /\ a.files[a.visual_list[i + 1] + 1].path = path
        /\ a.files[a.visual_list[i + 1] + 1].staged = staged}

\* C31: in the single-file revision, stage_selected on a selected entry
\* that returns Ok leaves the cursor on the entry with the same path and
\* the flipped staged flag when the rebuilt list has one; when it has none,
\* the cursor is where the rebuild's select-first-and-clamp rule put it,
\* and in both cases it is a valid position of the rebuilt list.
C31_MainCursorFollows ==
    (/\ app.running
     /\ app.input_mode = "Normal"
     /\ app.tab = "Files"
     /\ InRange(app.files_state, Len(app.visual_list)))
    => LET file == Selected(app)
           after == main_handle_key(Cur, Char(" "))
           matches == VisualMatches(after.app, file.path, ~file.staged)
       IN  after.fate = "run" =>
           /\ Called(after, "main_stage_selected")
           /\ Consistent(after.app.files_state, Len(after.app.visual_list))
           /\ IF matches # {}
              THEN /\ after.app.files_state # None
                   /\ matches = {Unwrap(after.app.files_state)}
              ELSE after.app.files_state
                   = AdjustSelection(app.files_state, Len(after.app.visual_list))

\* stage_selected has moved the cursor down to the entry it staged, into a
\* list that has entries in both sections
C31_Witness ==
    /\ Did("main_stage_selected")
    /\ app.message # None
    /\ Unwrap(app.message).text[1] = "Staged: "
    /\ app.files_state = Some(1)
    /\ Len(app.visual_list) = 3
    /\ Selected(app).staged


\* the number of entries of the list with this staged flag
SectionLen(a, staged) ==
    Cardinality({k \in 1..Len(a.visual_list) :
                    a.files[a.visual_list[k] + 1].staged = staged})

\* C32: after stage_selected (app.rs) has acted on the selected entry, the
\* cursor is at its old position within the section it was in, clamped to
\* the section's new length; if that section is now empty it is on the
\* first entry of Changes when it was in Staged and on the last entry of
\* Staged when it was in Changes; the index is a valid visual index (and
\* nothing is selected when the list is empty).
C32_FallbackClamped ==
    (/\ app.running
     /\ app.input_mode = "Normal"
     /\ app.tab = "Files"
     /\ app.processing = "None"
     /\ InRange(app.files_state, Len(app.visual_list)))
    => LET in_staged == Selected(app).staged
           pos == IF in_staged THEN Unwrap(app.files_state)
                  ELSE Unwrap(app.files_state) - SectionLen(app, TRUE)
           after == stage_selected(Cur)
           staged_len == SectionLen(after.app, TRUE)
           changes_len == SectionLen(after.app, FALSE)
           sel == after.app.files_state
       IN  (after.fate = "run" /\ Called(after, "rebuild_files")) =>
           /\ Consistent(sel, Len(after.app.visual_list))
           /\ (in_staged /\ staged_len > 0)
                  => sel = Some(Min(pos, staged_len - 1))
           /\ (in_staged /\ staged_len = 0 /\ changes_len > 0)
                  => sel = Some(0)
           /\ (~in_staged /\ changes_len > 0)
                  => sel = Some(staged_len + Min(pos, changes_len - 1))
           /\ (~in_staged /\ changes_len = 0 /\ staged_len > 0)
                  => sel = Some(staged_len - 1)

\* the last unstaged entry has been staged: Changes is empty and the cursor
\* is on the last of several staged entries
C32_Witness ==
    /\ Did("stage_selected")
    /\ Did("rebuild_files")
    /\ MessageIs(Cur, "Staged: ", FALSE)
    /\ SectionLen(app, FALSE) = 0
    /\ SectionLen(app, TRUE) >= 2
    /\ app.files_state = Some(SectionLen(app, TRUE) - 1)


\* the (path, staged, status) entries of a file list
EntrySet(fs) ==
    {[path |-> fs[k].path, staged |-> fs[k].staged, status |-> fs[k].status] :
        k \in 1..Len(fs)}

\* C33: in the state a successful status refresh leaves, whether it was
\* full or cheap and whether it rebuilt the list or skipped the rebuild on
\* an unchanged fingerprint, the (path, staged, status) entries of
\* FileEntries are the classification of the repository's current status.
C33_FilesMatchRepository ==
    (fate = "run" /\ (Did("rebuild_files") \/ Did("skip_rebuild")))
    => EntrySet(app.files) = EntrySet(FullFiles(Cur))


\* C34: is_amending is set only while the amended message is being edited:
\* whenever the input mode is Normal it is false, so that a commit entered
\* later runs a plain `git commit`.
C34_AmendingOnlyInInsert ==
    app.input_mode = "Normal" => ~app.is_amending


\* C35: in Normal mode Ctrl+C quits (running becomes false) on the Files
\* tab and on the Log tab, and does not enter Insert mode.
C35_CtrlCQuits ==
    \A env \in Envs :
        (fate = "run" /\ app.running /\ app.input_mode = "Normal")
        => LET after == handle_key(Cur, Ctrl("c"), env)
           IN  /\ ~after.app.running
               /\ after.app.input_mode # "Insert"


\* what the repository r holds
RepoState(w, r) ==
    [tree |-> w.tree[r], history |-> w.history[r], has_remote |-> w.has_remote[r],
     tags |-> w.tags[r], remote_tags |-> w.remote_tags[r]]

\* C36: the git commands a key handler runs act on the repository that is
\* open (repo_path): whatever the key, a repository that is not the open
\* one is left as it was.
C36_CommandsActOnOpenRepository ==
    \A key \in Keys, env \in Envs :
        (fate = "run" /\ app.running /\ ~is_active(app.processing))
        => LET after == handle_key(Cur, key, env)
           IN  \A r \in RepoSet \ {app.repo_path} :
                   RepoState(after.world, r) = RepoState(world, r)


\* C37: after every refresh, the one of switch_repo and one with an unborn
\* HEAD included, ahead_behind is Some exactly when HEAD resolves and
\* origin/<branch> exists, and then holds the counts of the open
\* repository's branch.
C37_AheadBehindCurrent ==
    Did("refresh") =>
        app.ahead_behind
        = IF world.head # 0 /\ world.upstream # 0
          THEN Some(graph_ahead_behind(world.parents, world.head, world.upstream))
          ELSE None


\* every character key: those of Keys and the full-width and other
\* characters of KeyChars, with and without Ctrl
AllCharKeys ==
    {k \in Keys : k.kind = "Char"}
    \cup {[kind |-> "Char", c |-> c, ctrl |-> ctrl] :
             c \in {65361, 65315, 65296, 12288, Ord("q"), Ord("P"), Ord("R"),
                    Ord("p"), Ord("T")},
             ctrl \in {TRUE, FALSE}}

\* C38: in Insert, RemoteUrl and TagInput mode a character key runs no
\* other handler and changes nothing but the mode's own text (one
\* character longer), the text cursor of Insert mode, and the message
\* that every key clears: running, the tab, the mode, the lists with
\* their cursors, Processing, the other two texts, the repository and the
\* worker threads are as before.
C38_CharKeysOnlyEdit ==
    \A key \in AllCharKeys, env \in Envs :
        (fate = "run" /\ app.running
         /\ app.input_mode \in {"Insert", "RemoteUrl", "TagInput"})
        => LET after == handle_key(Cur, key, env)
               b == after.app
               edited ==
                   CASE app.input_mode = "Insert" ->
                            [app EXCEPT !.commit_message = b.commit_message,
                                        !.cursor_pos = b.cursor_pos,
                                        !.message = None]
                     [] app.input_mode = "RemoteUrl" ->
                            [app EXCEPT !.remote_url = b.remote_url,
                                        !.message = None]
                     [] app.input_mode = "TagInput" ->
                            [app EXCEPT !.tag_input = b.tag_input,
                                        !.message = None]
               text(a) ==
                   CASE app.input_mode = "Insert" -> a.commit_message
                     [] app.input_mode = "RemoteUrl" -> a.remote_url
                     [] app.input_mode = "TagInput" -> a.tag_input
           IN  /\ after.fate = "run"
               /\ after.last = <<"handle_key">>
               /\ after.world = world
               /\ after.workers = workers
               /\ b = edited
               /\ Len(text(b)) = Len(text(app)) + 1

\* a character has been typed into the URL of the remote
C38_Witness ==
    /\ last = <<"handle_key">>
    /\ app.input_mode = "RemoteUrl"
    /\ app.remote_url = <<Ord("x")>>
    /\ app.running


\* C39: while the input mode is not Normal, a mouse event (scroll, left
\* click on any row) leaves the input mode, the tab and the selections of
\* the file list and of the commit list as they are.
C39_MouseIgnoredInDialogs ==
    \A event \in MouseEvents :
        (fate = "run" /\ app.running /\ ~is_active(app.processing)
         /\ app.input_mode # "Normal")
        => LET after == handle_mouse(Cur, event)
           IN  /\ after.app.input_mode = app.input_mode
               /\ after.app.tab = app.tab
               /\ after.app.files_state = app.files_state
               /\ after.app.commits_state = app.commits_state


\* the file rows of a drawn list, top to bottom
FileRows(items) == SelectSeq(items, LAMBDA it : it.kind = "file")

\* C40: in every state the k-th file row the Files tab draws is
\* files[visual_list[k]], and the item highlighted for the cursor is the
\* row of the file that stage_selected takes for that cursor.
C40_DrawnRowsAreVisualList ==
    LET drawn == render_files_tab(app)
        rows == FileRows(drawn.items)
    IN  /\ Len(rows) = Len(app.visual_list)
        /\ \A k \in 1..Len(rows) :
               rows[k].file = Some(app.files[app.visual_list[k] + 1])
        /\ InRange(app.files_state, Len(app.visual_list))
           => /\ drawn.selected # None
              /\ Unwrap(drawn.selected) < Len(drawn.items)
              /\ drawn.items[Unwrap(drawn.selected) + 1].file = Some(Selected(app))

\* a list with entries in both sections whose first entry in scan order is
\* not staged, the cursor on the last of the Changes rows
C40_Witness ==
    /\ Did("rebuild_files")
    /\ Len(app.files) >= 3
    /\ ~app.files[1].staged
    /\ SectionLen(app, TRUE) >= 1
    /\ app.files_state = Some(Len(app.visual_list) - 1)
    /\ app.visual_list # [k \in 1..Len(app.files) |-> k - 1]

====
